---- MODULE Spec2Model ----
(***************************************************************************)
(* Hierarchical anomaly scoring of user groups                             *)
(* (src/src/clustering/anomaly.py, src/src/clustering/split.py).           *)
(*                                                                         *)
(* AnomalyGroup objects live in an arena (heap); a reference is an index   *)
(* into it and None is 0.  A bitarray over the products is the set of its  *)
(* set bits: & is \cap, | is \cup and count() is Cardinality.  Floats are  *)
(* modelled as exact rationals <<num, den>> in lowest terms; the sigmoid   *)
(* penalty and the weighted geometric mean are kept symbolic.              *)
(***************************************************************************)
EXTENDS Integers, Sequences, FiniteSets, TLC

\* ------------------------------------------------------------------ bounds
NUsers == 4          \* users of the dataset the tree drivers run on
NForestUsers == 2    \* users of the dataset the forest operations run on
MItems == 2          \* products
MaxNodes == 4        \* AnomalyGroup objects in the arena of the forest operations
MaxListLen == 2      \* length of a raw user list
MaxChildren == 3     \* length of a children list
MaxRows == 2         \* rows of a linkage matrix or condensed tree of arbitrary ids
MaxMatrixRows == 5   \* rows of a matrix to split
MaxSplitParam == 3   \* largest max_group_size / num_groups of a split
MaxTrials == 2       \* trials of split_matrix_kmeans

Items == 1 .. MItems
None == 0
NoValue == <<>>

\* --------------------------------------------------------------- rationals
RECURSIVE GCD(_, _)
GCD(a, b) == IF b = 0 THEN a ELSE GCD(b, a % b)

Rat(n, d) ==
    LET g == GCD(n, d) IN IF n = 0 THEN <<0, 1>> ELSE <<n \div g, d \div g>>

Zero == <<0, 1>>
One == <<1, 1>>
RatAdd(x, y) == Rat(x[1] * y[2] + y[1] * x[2], x[2] * y[2])
RatMul(x, y) == Rat(x[1] * y[1], x[2] * y[2])
RatInt(n) == <<n, 1>>
RatDivInt(x, n) == Rat(x[1], x[2] * n)
RatLeq(x, y) == x[1] * y[2] <= y[1] * x[2]

\* sum(s); exact addition is associative, and the list is summed by halves
\* to keep the evaluation shallow.
RECURSIVE RatSum(_)
RatSum(s) ==
    IF s = <<>> THEN Zero
    ELSE IF Len(s) = 1 THEN RatAdd(s[1], Zero)
    ELSE RatAdd(RatSum(SubSeq(s, 1, Len(s) \div 2)),
                RatSum(SubSeq(s, (Len(s) \div 2) + 1, Len(s))))

RECURSIVE SeqSum(_)
SeqSum(s) == IF s = <<>> THEN 0 ELSE Head(s) + SeqSum(Tail(s))

SeqSet(s) == {s[i] : i \in 1 .. Len(s)}

\* All sequences over S of length lo .. hi.
SeqsOf(S, lo, hi) == UNION {[1 .. n -> S] : n \in lo .. hi}

\* ------------------------------------------------------------------- state
VARIABLES
    bits,     \* UserSimilarity: user -> that user's product bitarray
    heap,     \* arena of AnomalyGroup objects, in allocation order
    scorer,   \* the AnomalyScorer's configuration and per-user metadata
    last,     \* the last call: its operation, arguments and outcome
    drv       \* the running tree driver (hierarchical / hdbscan), if any

vars == <<bits, heap, scorer, last, drv>>

\* dataset.n_users and the users 0 .. n_users - 1
n_users_of(b) == Cardinality(DOMAIN b)
Users == DOMAIN bits
Datasets(n) == [0 .. (n - 1) -> SUBSET Items]

\* --------------------------------------------- UserSimilarity (collaborator)
get_user_bitarray(b, user) == b[user]

get_user_bitarrays(b, users) == [i \in 1 .. Len(users) |-> b[users[i]]]

\* |A & B| / |A | B|, and 0 for two empty product sets.
get_jaccard_similarity(b, i, j) ==
    IF b[i] \cup b[j] = {} THEN Zero
    ELSE Rat(Cardinality(b[i] \cap b[j]), Cardinality(b[i] \cup b[j]))

\* ------------------------------------------------------------ AnomalyGroup
\* __init__.  penalty_writes / average_jaccard_writes are history fields: the
\* number of assignments the running call has made to the two cache fields
\* (saturating at 2); they are 0 between calls.
AnomalyGroup(users, inter, union, n_total_reviews, child1, child2) ==
    [users |-> users,
     group_product_set_intersection |-> inter,
     group_product_set_union |-> union,
     n_total_products_reviewed |-> Cardinality(union),
     n_common_products_reviewed |-> Cardinality(inter),
     n_users |-> Len(users),
     n_total_reviews |-> n_total_reviews,
     child1 |-> child1,
     child2 |-> child2,
     penalty |-> NoValue,
     average_jaccard |-> NoValue,
     penalty_writes |-> 0,
     average_jaccard_writes |-> 0]

Bump(n) == IF n >= 2 THEN 2 ELSE n + 1

\* A call's outcome on the arena: the arena after it, the reference or value
\* it returns and the exception it raises ("" when it returns).
Outcome(h, ref, val, err) == [h |-> h, ref |-> ref, val |-> val, err |-> err]

Alloc(h, node) == Outcome(Append(h, node), Len(h) + 1, NoValue, "")

\* Mutant of make_group_from_children: the review count of child2 is dropped.
make_group_from_children_drops_reviews(h, child1, child2) ==
    LET c1 == h[child1]
        c2 == h[child2]
    IN  Alloc(h, AnomalyGroup(c1.users \o c2.users,
                              c1.group_product_set_intersection
                                  \cap c2.group_product_set_intersection,
                              c1.group_product_set_union \cup c2.group_product_set_union,
                              c1.n_total_reviews, child1, child2))

make_group_from_children(h, child1, child2) ==
    LET c1 == h[child1]
        c2 == h[child2]
        users == c1.users \o c2.users
        group_product_set_intersection ==
            c1.group_product_set_intersection \cap c2.group_product_set_intersection
        group_product_set_union ==
            c1.group_product_set_union \cup c2.group_product_set_union
        n_total_reviews == c1.n_total_reviews + c2.n_total_reviews
    IN  Alloc(h, AnomalyGroup(users, group_product_set_intersection,
                              group_product_set_union, n_total_reviews,
                              child1, child2))

make_single_user_group(h, b, user) ==
    LET users == <<user>>
        group_product_set_intersection == get_user_bitarray(b, user)
        group_product_set_union == get_user_bitarray(b, user)
        n_total_reviews == Cardinality(group_product_set_union)
    IN  Alloc(h, AnomalyGroup(users, group_product_set_intersection,
                              group_product_set_union, n_total_reviews,
                              None, None))

\* The fold of make_group from position i on, over the accumulators
\* (intersection, union, n_total_reviews).
\* Mutant of MakeGroupFold: & and | are swapped.
RECURSIVE MakeGroupFold_swapped(_, _, _)
MakeGroupFold_swapped(user_bitarrays, i, acc) ==
    IF i > Len(user_bitarrays) THEN acc
    ELSE MakeGroupFold_swapped(user_bitarrays, i + 1,
            [inter |-> acc.inter \cup user_bitarrays[i],
             union |-> acc.union \cap user_bitarrays[i],
             n_total_reviews |-> acc.n_total_reviews + Cardinality(user_bitarrays[i])])

RECURSIVE MakeGroupFold(_, _, _)
MakeGroupFold(user_bitarrays, i, acc) ==
    IF i > Len(user_bitarrays) THEN acc
    ELSE MakeGroupFold(user_bitarrays, i + 1,
            [inter |-> acc.inter \cap user_bitarrays[i],
             union |-> acc.union \cup user_bitarrays[i],
             n_total_reviews |-> acc.n_total_reviews + Cardinality(user_bitarrays[i])])

\* user_bitarrays[0] of an empty list raises IndexError.
make_group(h, b, users) ==
    IF users = <<>> THEN Outcome(h, None, NoValue, "IndexError")
    ELSE
    LET user_bitarrays == get_user_bitarrays(b, users)
        acc == MakeGroupFold(user_bitarrays, 2,
                   [inter |-> user_bitarrays[1],
                    union |-> user_bitarrays[1],
                    n_total_reviews |-> Cardinality(user_bitarrays[1])])
    IN  Alloc(h, AnomalyGroup(users, acc.inter, acc.union, acc.n_total_reviews,
                              None, None))

\* ------------------------------------------------ many children (n-ary merge)
\* _make_group_from_many_children_recursive.  children is a list of
\* references; an empty list never reaches a base case (RecursionError).
RECURSIVE _make_group_from_many_children_recursive(_, _)
_make_group_from_many_children_recursive(h, children) ==
    IF Len(children) = 0 THEN Outcome(h, None, NoValue, "RecursionError")
    ELSE IF Len(children) = 1 THEN Outcome(h, children[1], NoValue, "")
    ELSE IF Len(children) = 2 THEN make_group_from_children(h, children[1], children[2])
    ELSE
    LET half == Len(children) \div 2
        left == _make_group_from_many_children_recursive(h, SubSeq(children, 1, half))
        right == _make_group_from_many_children_recursive(
                     left.h, SubSeq(children, half + 1, Len(children)))
    IN  make_group_from_children(right.h, left.ref, right.ref)

\* ------------------------------------------------------- scoring primitives
\* 1 / (1 + e^-(beta * (n_users + n_total_products) - 3)), kept symbolic; beta
\* is in hundredths.
Sigmoid(beta, k) == <<"sigmoid", beta, k>>

_penalty_function(node, beta) ==
    [node EXCEPT !.penalty = Sigmoid(beta, node.n_users + node.n_total_products_reviewed),
                 !.penalty_writes = Bump(@)]

\* Mutant of _review_tightness: n_users is left out of the denominator.
_review_tightness_per_product(node) ==
    IF node.n_total_products_reviewed = 0 THEN Zero
    ELSE Rat(node.n_total_reviews, node.n_total_products_reviewed)

_review_tightness(node) ==
    IF node.n_total_products_reviewed = 0 THEN Zero
    ELSE Rat(node.n_total_reviews, node.n_users * node.n_total_products_reviewed)

_product_tightness(node) ==
    IF node.n_total_products_reviewed = 0 THEN Zero
    ELSE Rat(node.n_common_products_reviewed, node.n_total_products_reviewed)

\* similarity_scores_children: one query per (i, j), i in users1, j in users2.
SimilarityScoresChildren(b, users1, users2) ==
    [k \in 1 .. Len(users1) * Len(users2) |->
        get_jaccard_similarity(b, users1[((k - 1) \div Len(users2)) + 1],
                                  users2[((k - 1) % Len(users2)) + 1])]

\* Mutant of CombineAverageJaccard: child1's similarity sum is written back
\* into child1's cache.
CombineAverageJaccard_caches_sum(h, self, scores) ==
    LET c1 == h[h[self].child1]
        c2 == h[h[self].child2]
        child1_similarity_score_sum == RatMul(c1.average_jaccard, RatInt(c1.n_users * c1.n_users))
        child2_similarity_score_sum == RatMul(c2.average_jaccard, RatInt(c2.n_users * c2.n_users))
        value == RatDivInt(RatAdd(RatMul(RatInt(2), RatSum(scores)),
                                  RatAdd(child1_similarity_score_sum,
                                         child2_similarity_score_sum)),
                           h[self].n_users * h[self].n_users)
    IN  Outcome([h EXCEPT ![h[self].child1].average_jaccard = child1_similarity_score_sum,
                          ![self].average_jaccard = value,
                          ![self].average_jaccard_writes = Bump(@)],
                None, value, "")

\* Mutant of CombineAverageJaccard: the cross-child sum is counted once.
CombineAverageJaccard_counts_once(h, self, scores) ==
    LET c1 == h[h[self].child1]
        c2 == h[h[self].child2]
        child1_similarity_score_sum == RatMul(c1.average_jaccard, RatInt(c1.n_users * c1.n_users))
        child2_similarity_score_sum == RatMul(c2.average_jaccard, RatInt(c2.n_users * c2.n_users))
        value == RatDivInt(RatAdd(RatSum(scores),
                                  RatAdd(child1_similarity_score_sum,
                                         child2_similarity_score_sum)),
                           h[self].n_users * h[self].n_users)
    IN  Outcome([h EXCEPT ![self].average_jaccard = value,
                          ![self].average_jaccard_writes = Bump(@)],
                None, value, "")

\* Lines 228-231: the combination of the cross sum with the children's
\* cached averages, assigned to self.average_jaccard.
CombineAverageJaccard(h, self, scores) ==
    LET c1 == h[h[self].child1]
        c2 == h[h[self].child2]
        child1_similarity_score_sum == RatMul(c1.average_jaccard, RatInt(c1.n_users * c1.n_users))
        child2_similarity_score_sum == RatMul(c2.average_jaccard, RatInt(c2.n_users * c2.n_users))
        value == RatDivInt(RatAdd(RatMul(RatInt(2), RatSum(scores)),
                                  RatAdd(child1_similarity_score_sum,
                                         child2_similarity_score_sum)),
                           h[self].n_users * h[self].n_users)
    IN  Outcome([h EXCEPT ![self].average_jaccard = value,
                          ![self].average_jaccard_writes = Bump(@)],
                None, value, "")

\* _average_jaccard.  A node of two or more users that has no children
\* raises AttributeError at self.child1.users (child1 is None).
\* Mutant of SmallGroup: only the empty group takes the shortcut.
SmallGroup_empty_only(node) == node.n_users = 0

\* self.n_users <= 1
SmallGroup(node) == node.n_users <= 1

\* Mutant of Uncached: a child's cached average is never taken.
Uncached_always(node) == TRUE

\* self.child1.average_jaccard is None
Uncached(node) == node.average_jaccard = NoValue

RECURSIVE _average_jaccard(_, _, _)
_average_jaccard(h, b, self) ==
    IF SmallGroup(h[self])
    THEN Outcome([h EXCEPT ![self].average_jaccard = One,
                           ![self].average_jaccard_writes = Bump(@)],
                 None, One, "")
    ELSE IF h[self].child1 = None \/ h[self].child2 = None
    THEN Outcome(h, None, NoValue, "AttributeError")
    ELSE
    LET scores == SimilarityScoresChildren(b, h[h[self].child1].users,
                                              h[h[self].child2].users)
        r1 == IF Uncached(h[h[self].child1])
              THEN _average_jaccard(h, b, h[self].child1)
              ELSE Outcome(h, None, NoValue, "")
        r2 == IF r1.err # "" THEN r1
              ELSE IF Uncached(r1.h[h[self].child2])
              THEN _average_jaccard(r1.h, b, h[self].child2)
              ELSE Outcome(r1.h, None, NoValue, "")
    IN  IF r2.err # "" THEN r2 ELSE CombineAverageJaccard(r2.h, self, scores)

\* The number of get_jaccard_similarity queries _average_jaccard makes: one
\* per pair of similarity_scores_children, here and in every child it
\* recurses into.
RECURSIVE JaccardQueries(_, _, _)
JaccardQueries(h, b, self) ==
    IF SmallGroup(h[self]) THEN 0
    ELSE IF h[self].child1 = None \/ h[self].child2 = None THEN 0
    ELSE
    LET here == Len(h[h[self].child1].users) * Len(h[h[self].child2].users)
        r1 == IF Uncached(h[h[self].child1])
              THEN _average_jaccard(h, b, h[self].child1)
              ELSE Outcome(h, None, NoValue, "")
        q1 == IF Uncached(h[h[self].child1])
              THEN JaccardQueries(h, b, h[self].child1) ELSE 0
        q2 == IF r1.err = "" /\ Uncached(r1.h[h[self].child2])
              THEN JaccardQueries(r1.h, b, h[self].child2) ELSE 0
    IN  here + q1 + q2

\* The (i, j) of the get_jaccard_similarity queries _average_jaccard makes,
\* in call order: the pairs of similarity_scores_children, then those of the
\* children it recurses into.
RECURSIVE JaccardPairs(_, _, _)
JaccardPairs(h, b, self) ==
    IF SmallGroup(h[self]) THEN <<>>
    ELSE IF h[self].child1 = None \/ h[self].child2 = None THEN <<>>
    ELSE
    LET users1 == h[h[self].child1].users
        users2 == h[h[self].child2].users
        here == [k \in 1 .. Len(users1) * Len(users2) |->
                    <<users1[((k - 1) \div Len(users2)) + 1],
                      users2[((k - 1) % Len(users2)) + 1]>>]
        r1 == IF Uncached(h[h[self].child1])
              THEN _average_jaccard(h, b, h[self].child1)
              ELSE Outcome(h, None, NoValue, "")
        p1 == IF Uncached(h[h[self].child1])
              THEN JaccardPairs(h, b, h[self].child1) ELSE <<>>
        p2 == IF r1.err = "" /\ Uncached(r1.h[h[self].child2])
              THEN JaccardPairs(r1.h, b, h[self].child2) ELSE <<>>
    IN  here \o p1 \o p2

_neighbor_tightness(h, b, self) == _average_jaccard(h, b, self)

\* penalty * RT_g * PT_g * NT_g with the sigmoid kept symbolic.
Product(penalty, r) ==
    IF r = Zero THEN Zero
    ELSE IF penalty = One THEN r
    ELSE <<"sigmoid", penalty[2], penalty[3], r[1], r[2]>>

group_anomaly_compactness(h, b, self, enable_penalty, beta) ==
    LET h1 == IF enable_penalty
              THEN [h EXCEPT ![self] = _penalty_function(@, beta)]
              ELSE [h EXCEPT ![self].penalty = One, ![self].penalty_writes = Bump(@)]
        RT_g == _review_tightness(h1[self])
        PT_g == _product_tightness(h1[self])
        NT == _neighbor_tightness(h1, b, self)
    IN  IF NT.err # "" THEN NT
        ELSE Outcome(NT.h, None,
                     Product(NT.h[self].penalty, RatMul(RatMul(RT_g, PT_g), NT.val)), "")

\* make_group_from_many_children.  The iterative loop works on the caller's
\* list: Iterate returns the outcome together with the list as it leaves it.
RECURSIVE IterateChildren(_, _, _)
IterateChildren(h, b, children) ==
    IF Len(children) <= 1
    THEN [out |-> IF Len(children) = 0
                  THEN Outcome(h, None, NoValue, "IndexError")
                  ELSE Outcome(h, children[1], NoValue, ""),
          children |-> children]
    ELSE
    LET child1 == children[1]
        child2 == children[2]
        rest == SubSeq(children, 3, Len(children))
        group == make_group_from_children(h, child1, child2)
        aj == _average_jaccard(group.h, b, group.ref)
    IN  IF aj.err # "" THEN [out |-> aj, children |-> rest]
        ELSE IterateChildren(aj.h, b, Append(rest, group.ref))

\* Mutant of make_group_from_many_children: the iterative loop works on a
\* copy of the caller's list.
make_group_from_many_children_on_copy(h, b, children, recursive) ==
    [out |-> IF recursive THEN _make_group_from_many_children_recursive(h, children)
             ELSE IterateChildren(h, b, children).out,
     children |-> children]

\* Mutant of make_group_from_many_children: the recursive flag is not read.
make_group_from_many_children_halves_only(h, b, children, recursive) ==
    [out |-> _make_group_from_many_children_recursive(h, children),
     children |-> children]

make_group_from_many_children(h, b, children, recursive) ==
    IF recursive
    THEN [out |-> _make_group_from_many_children_recursive(h, children),
          children |-> children]
    ELSE IterateChildren(h, b, children)

\* ------------------------------------------------------------ AnomalyScorer
\* Mutant of weighted_geometric_mean: no test for a zero score.
weighted_geometric_mean_unguarded(scores, weights) ==
    <<"weighted_geometric_mean", scores, weights, Len(scores)>>

\* weighted_arithmetic_mean(np.log(scores), weights) under np.exp stays
\* symbolic; the zero guard is exact.
weighted_geometric_mean(scores, weights) ==
    IF \E i \in 1 .. Len(scores) : scores[i] = Zero THEN Zero
    ELSE <<"weighted_geometric_mean", scores, weights, Len(scores)>>

weighted_harmonic_mean(scores, weights) ==
    IF \E i \in 1 .. Len(scores) : scores[i] = Zero THEN Zero
    ELSE <<"weighted_harmonic_mean", scores, weights, Len(scores)>>

\* np.mean(values[users])
Mean(values, users) ==
    RatDivInt(RatSum([i \in 1 .. Len(users) |-> values[users[i]]]), Len(users))

GeometricWeights == <<Rat(4, 5), Rat(1, 10), Rat(1, 10)>>

\* A group argument: an AnomalyGroup of the arena, or a raw list of users.
NodeArg(ref) == [kind |-> "node", ref |-> ref, users |-> <<>>]
ListArg(users) == [kind |-> "list", ref |-> None, users |-> users]
ArgLen(h, group) == IF group.kind = "node" THEN h[group.ref].n_users ELSE Len(group.users)

\* Mutant of SizeCapped: a group of exactly max_group_size users is capped too.
SizeCapped_at_max(size, max_group_size) == size >= max_group_size

\* len(group) > self.max_group_size
SizeCapped(size, max_group_size) == size > max_group_size

\* get_anomaly_score.  The outcome's ref is the node make_group built for a
\* raw list (None when none was built).
get_anomaly_score(h, b, sc, group) ==
    IF SizeCapped(ArgLen(h, group), sc.max_group_size) THEN Outcome(h, None, Zero, "")
    ELSE
    LET built == IF group.kind = "list" THEN make_group(h, b, group.users)
                 ELSE Outcome(h, group.ref, NoValue, "")
    IN  IF built.err # "" THEN built
        ELSE
        LET self == built.ref
            ref == IF group.kind = "list" THEN self ELSE None
            Pi == group_anomaly_compactness(built.h, b, self, sc.enable_penalty, sc.beta)
        IN  IF Pi.err # "" THEN Outcome(Pi.h, ref, NoValue, Pi.err)
            ELSE IF sc.use_metadata
            THEN LET group_mean_avrd == RatDivInt(Mean(sc.avrd, built.h[self].users), 5)
                     group_mean_burstness == Mean(sc.burstness, built.h[self].users)
                 IN  Outcome(Pi.h, ref,
                             weighted_geometric_mean(
                                 <<Pi.val, group_mean_avrd, group_mean_burstness>>,
                                 GeometricWeights), "")
            ELSE Outcome(Pi.h, ref, Pi.val, "")

\* The get_jaccard_similarity queries of one get_anomaly_score call on a
\* node of the arena: none for a capped group, those of _average_jaccard
\* otherwise.
ScoreQueries(h, b, sc, ref) ==
    IF SizeCapped(h[ref].n_users, sc.max_group_size) THEN <<>>
    ELSE JaccardPairs(h, b, ref)

\* ------------------------------------------------------------ configuration
Betas == {15, 50}
AvrdValues == {Zero, <<5, 2>>}
BurstnessValues == {Zero, <<1, 2>>}

\* AnomalyScorer.__init__: the configuration, and the per-user metadata
\* arrays when use_metadata is set (None otherwise).
PlainScorers(penalties, sizes, betas) ==
    {[enable_penalty |-> ep, use_metadata |-> FALSE, max_group_size |-> m,
      beta |-> be, avrd |-> NoValue, burstness |-> NoValue] :
        ep \in penalties, m \in sizes, be \in betas}

MetadataScorers(penalties, sizes, betas, n) ==
    {[enable_penalty |-> ep, use_metadata |-> TRUE, max_group_size |-> m,
      beta |-> be, avrd |-> a, burstness |-> bu] :
        ep \in penalties, m \in sizes, be \in betas,
        a \in [0 .. (n - 1) -> AvrdValues], bu \in [0 .. (n - 1) -> BurstnessValues]}

NoScorer == [use_metadata |-> FALSE]
NoCall == [op |-> "none"]
NoDriver == [kind |-> "none"]

\* ------------------------------------------------------- call bookkeeping
Refs == 1 .. Len(heap)

\* The arena as a call leaves it: the per-call write counts cleared.
Settle(h) ==
    [i \in 1 .. Len(h) |->
        [h[i] EXCEPT !.penalty_writes = 0, !.average_jaccard_writes = 0]]

\* The nodes whose cache field held a value when the call began and was
\* assigned by the call, and the nodes the call assigned more than once.
RewrittenAverageJaccard(h0, h1) ==
    {n \in 1 .. Len(h0) :
        h0[n].average_jaccard # NoValue /\ h1[n].average_jaccard_writes > 0}
    \cup {n \in 1 .. Len(h1) : h1[n].average_jaccard_writes >= 2}

RewrittenPenalty(h0, h1) ==
    {n \in 1 .. Len(h0) : h0[n].penalty # NoValue /\ h1[n].penalty_writes > 0}
    \cup {n \in 1 .. Len(h1) : h1[n].penalty_writes >= 2}

\* ---------------------------------------------------- forest construction
MakeSingleUserGroup ==
    \E user \in Users :
        /\ Len(heap) < MaxNodes
        /\ \E out \in {make_single_user_group(heap, bits, user)} :
               /\ heap' = Settle(out.h)
               /\ last' = [op |-> "make_single_user_group", user |-> user,
                           ref |-> out.ref, err |-> out.err]
        /\ UNCHANGED <<bits, scorer, drv>>

MakeGroup ==
    \E users \in SeqsOf(Users, 0, MaxListLen) :
        /\ Len(heap) < MaxNodes
        /\ \E out \in {make_group(heap, bits, users)} :
               /\ heap' = Settle(out.h)
               /\ last' = [op |-> "make_group", users |-> users,
                           ref |-> out.ref, err |-> out.err]
        /\ UNCHANGED <<bits, scorer, drv>>

MakeGroupFromChildren ==
    \E child1 \in Refs, child2 \in Refs :
        /\ Len(heap) < MaxNodes
        /\ \E out \in {make_group_from_children(heap, child1, child2)} :
               /\ heap' = Settle(out.h)
               /\ last' = [op |-> "make_group_from_children", child1 |-> child1,
                           child2 |-> child2, ref |-> out.ref, err |-> out.err]
        /\ UNCHANGED <<bits, scorer, drv>>

MakeGroupFromManyChildren ==
    \E children \in SeqsOf(Refs, 0, MaxChildren), recursive \in BOOLEAN :
        /\ Len(heap) + Len(children) - 1 <= MaxNodes
        /\ \E r \in {make_group_from_many_children(heap, bits, children, recursive)} :
               /\ heap' = Settle(r.out.h)
               /\ last' = [op |-> "make_group_from_many_children",
                           children |-> children, recursive |-> recursive,
                           children_after |-> r.children,
                           aj_rewritten |-> RewrittenAverageJaccard(heap, r.out.h),
                           ref |-> r.out.ref, err |-> r.out.err]
        /\ UNCHANGED <<bits, scorer, drv>>

\* One leaf per user, as both tree drivers materialise them first.
RECURSIVE Leaves(_, _)
Leaves(b, n) ==
    IF n = 0 THEN <<>> ELSE make_single_user_group(Leaves(b, n - 1), b, n - 1).h

Init ==
    /\ bits \in Datasets(NForestUsers)
    /\ heap = Leaves(bits, NForestUsers)
    /\ scorer = NoScorer
    /\ last = NoCall
    /\ drv = NoDriver

Next ==
    \/ MakeSingleUserGroup
    \/ MakeGroup
    \/ MakeGroupFromChildren
    \/ MakeGroupFromManyChildren

Spec == Init /\ [][Next]_vars

\* ------------------------------------------------------------------ scoring
\* The nodes the call assigned a cache field of.
Written(h1) ==
    {n \in 1 .. Len(h1) : h1[n].average_jaccard_writes > 0 \/ h1[n].penalty_writes > 0}

AverageJaccard ==
    \E self \in Refs :
        /\ \E out \in {_average_jaccard(heap, bits, self)} :
               /\ heap' = Settle(out.h)
               /\ last' = [op |-> "_average_jaccard", self |-> self,
                           queries |-> JaccardQueries(heap, bits, self),
                           aj_rewritten |-> RewrittenAverageJaccard(heap, out.h),
                           pen_rewritten |-> RewrittenPenalty(heap, out.h),
                           written |-> Written(out.h),
                           val |-> out.val, err |-> out.err]
        /\ UNCHANGED <<bits, scorer, drv>>

GroupAnomalyCompactness ==
    \E self \in Refs, enable_penalty \in BOOLEAN, beta \in Betas :
        /\ \E out \in {group_anomaly_compactness(heap, bits, self, enable_penalty, beta)} :
               /\ heap' = Settle(out.h)
               /\ last' = [op |-> "group_anomaly_compactness", self |-> self,
                           enable_penalty |-> enable_penalty, beta |-> beta,
                           aj_rewritten |-> RewrittenAverageJaccard(heap, out.h),
                           pen_rewritten |-> RewrittenPenalty(heap, out.h),
                           written |-> Written(out.h),
                           val |-> out.val, err |-> out.err]
        /\ UNCHANGED <<bits, scorer, drv>>

\* get_anomaly_score on a node of the arena or on a raw list.  The node
\* make_group builds for a raw list is local to the call: built holds it as
\* the call leaves it, and the arena keeps the caller's objects only.
GetAnomalyScore ==
    \E group \in {NodeArg(ref) : ref \in Refs}
                 \cup {ListArg(users) : users \in SeqsOf(Users, 0, MaxListLen)} :
        /\ \E out \in {get_anomaly_score(heap, bits, scorer, group)} :
           \E kept \in {SubSeq(out.h, 1, Len(heap))} :
               /\ heap' = Settle(kept)
               /\ last' = [op |-> "get_anomaly_score", group |-> group,
                           size |-> ArgLen(heap, group),
                           built |-> IF out.ref = None THEN NoValue
                                     ELSE <<out.h[out.ref]>>,
                           aj_rewritten |-> RewrittenAverageJaccard(heap, kept),
                           pen_rewritten |-> RewrittenPenalty(heap, kept),
                           written |-> Written(kept),
                           val |-> out.val, err |-> out.err]
        /\ UNCHANGED <<bits, scorer, drv>>

\* Forests the scoring operations start on: the leaves and their merge, then
\* either a merge on top of it or a node built from a raw list under a merge.
PairForest(b) == make_group_from_children(Leaves(b, n_users_of(b)), 1, 2).h
ChainForest(b) == make_group_from_children(PairForest(b), Len(PairForest(b)), 2).h
ListForest(b) ==
    make_group_from_children(make_group(Leaves(b, n_users_of(b)), b, <<0, 1>>).h,
                             n_users_of(b) + 1, 1).h

\* The datasets in which every user has reviewed product 1.
OverlappingDatasets(n) == [0 .. (n - 1) -> {S \in SUBSET Items : 1 \in S}]

InitCache ==
    /\ bits \in OverlappingDatasets(NForestUsers)
    /\ heap \in {ChainForest(bits), ListForest(bits)}
    /\ scorer \in PlainScorers({TRUE}, {2}, {15})
    /\ last = NoCall
    /\ drv = NoDriver

NextCache ==
    \/ AverageJaccard
    \/ GroupAnomalyCompactness
    \/ GetAnomalyScore

SpecCache == InitCache /\ [][NextCache]_vars

InitScore ==
    /\ bits \in Datasets(NForestUsers)
    /\ heap = PairForest(bits)
    /\ scorer \in PlainScorers(BOOLEAN, 1 .. NForestUsers, {15})
                  \cup MetadataScorers(BOOLEAN, 1 .. NForestUsers, {15}, NForestUsers)
    /\ last = NoCall
    /\ drv = NoDriver

NextScore == GetAnomalyScore

SpecScore == InitScore /\ [][NextScore]_vars

\* A forest of groups of at most one user: one leaf per user and the empty
\* group AnomalyGroup([], <empty>, <empty>, 0, user_simi).
SmallForest(b) ==
    Append(Leaves(b, n_users_of(b)), AnomalyGroup(<<>>, {}, {}, 0, None, None))

InitSmall ==
    /\ bits \in Datasets(NForestUsers)
    /\ heap = SmallForest(bits)
    /\ scorer \in PlainScorers({TRUE}, {NForestUsers}, {15})
    /\ last = NoCall
    /\ drv = NoDriver

SpecSmall == InitSmall /\ [][NextCache]_vars

\* make_group_from_children and make_group_from_many_children on the
\* arguments of a pending call, over a forest of four nodes.  merges and before are history fields: the
\* AnomalyGroup objects the call constructed and the arena as the call
\* found it.
MaxManyChildren == 4

ManyChildrenArgs ==
    [children : SeqsOf(1 .. (NForestUsers + 2), 0, MaxManyChildren),
     recursive : BOOLEAN]

MakeGroupFromManyChildrenCall ==
    /\ last.op = "call"
    /\ last.fn = "make_group_from_many_children"
    /\ \E r \in {make_group_from_many_children(heap, bits, last.args.children,
                                               last.args.recursive)} :
           /\ heap' = Settle(r.out.h)
           /\ last' = [op |-> "make_group_from_many_children",
                       children |-> last.args.children,
                       recursive |-> last.args.recursive,
                       children_after |-> r.children,
                       merges |-> Len(r.out.h) - Len(heap),
                       before |-> heap,
                       aj_rewritten |-> RewrittenAverageJaccard(heap, r.out.h),
                       ref |-> r.out.ref, err |-> r.out.err]
    /\ UNCHANGED <<bits, scorer, drv>>

MakeGroupFromChildrenCall ==
    /\ last.op = "call"
    /\ last.fn = "make_group_from_children"
    /\ \E out \in {make_group_from_children(heap, last.args.child1, last.args.child2)} :
           /\ heap' = Settle(out.h)
           /\ last' = [op |-> "make_group_from_children",
                       children |-> <<last.args.child1, last.args.child2>>,
                       recursive |-> TRUE,
                       children_after |-> <<last.args.child1, last.args.child2>>,
                       merges |-> Len(out.h) - Len(heap),
                       before |-> heap,
                       aj_rewritten |-> RewrittenAverageJaccard(heap, out.h),
                       ref |-> out.ref, err |-> out.err]
    /\ UNCHANGED <<bits, scorer, drv>>

\* group_anomaly_compactness requested of the node the call returned.
CompactnessOfReturned ==
    /\ last.op \in {"make_group_from_many_children", "make_group_from_children"}
    /\ last.err = ""
    /\ \E out \in {group_anomaly_compactness(heap, bits, last.ref,
                                              scorer.enable_penalty, scorer.beta)} :
           /\ heap' = Settle(out.h)
           /\ last' = [op |-> "group_anomaly_compactness", self |-> last.ref,
                       enable_penalty |-> scorer.enable_penalty, beta |-> scorer.beta,
                       before |-> heap, made |-> last,
                       aj_rewritten |-> RewrittenAverageJaccard(heap, out.h),
                       pen_rewritten |-> RewrittenPenalty(heap, out.h),
                       written |-> Written(out.h),
                       val |-> out.val, err |-> out.err]
    /\ UNCHANGED <<bits, scorer, drv>>

\* The leaves, their merge and a node built from the raw list [0, 1].
MixedForest(b) == make_group(PairForest(b), b, <<0, 1>>).h

InitMany ==
    /\ bits \in Datasets(NForestUsers)
    /\ heap = MixedForest(bits)
    /\ scorer \in PlainScorers({TRUE}, {NForestUsers}, {15})
    /\ last \in {[op |-> "call", fn |-> "make_group_from_many_children", args |-> a] :
                    a \in ManyChildrenArgs}
            \cup {[op |-> "call", fn |-> "make_group_from_children", args |-> a] :
                      a \in [child1 : 1 .. (NForestUsers + 2),
                             child2 : 1 .. (NForestUsers + 2)]}
    /\ drv = NoDriver

NextMany ==
    \/ MakeGroupFromChildrenCall
    \/ MakeGroupFromManyChildrenCall
    \/ CompactnessOfReturned

SpecMany == InitMany /\ [][NextMany]_vars

\* Forests over distinct users: from one leaf per user, merges of two nodes
\* that share no user, and the compactness of any node under the scorer's
\* configuration.
NFactorUsers == 3
MaxFactorNodes == 5

Disjoint(h, child1, child2) == SeqSet(h[child1].users) \cap SeqSet(h[child2].users) = {}

MergeDisjoint ==
    \E child1 \in Refs, child2 \in Refs :
        /\ Len(heap) < MaxFactorNodes
        /\ Disjoint(heap, child1, child2)
        /\ \E out \in {make_group_from_children(heap, child1, child2)} :
               /\ heap' = Settle(out.h)
               /\ last' = [op |-> "make_group_from_children", child1 |-> child1,
                           child2 |-> child2, ref |-> out.ref, err |-> out.err]
        /\ UNCHANGED <<bits, scorer, drv>>

CompactnessOfNode ==
    \E self \in Refs :
        /\ \E out \in {group_anomaly_compactness(heap, bits, self,
                                                  scorer.enable_penalty, scorer.beta)} :
               /\ heap' = Settle(out.h)
               /\ last' = [op |-> "group_anomaly_compactness", self |-> self,
                           enable_penalty |-> scorer.enable_penalty,
                           beta |-> scorer.beta,
                           val |-> out.val, err |-> out.err]
        /\ UNCHANGED <<bits, scorer, drv>>

InitFactors ==
    /\ bits \in Datasets(NFactorUsers)
    /\ heap = Leaves(bits, NFactorUsers)
    /\ scorer \in PlainScorers({FALSE}, {NFactorUsers}, {15})
    /\ last = NoCall
    /\ drv = NoDriver

NextFactors == MergeDisjoint \/ CompactnessOfNode

SpecFactors == InitFactors /\ [][NextFactors]_vars

\* ------------------------------------------------------------- tree drivers
\* A Python list or numpy array, indexed from 0.
At(s, k) == s[k + 1]
Put(s, k, v) == [s EXCEPT ![k + 1] = v]

\* group_mapping: None (utils.IdentityMap over the dataset's users) or a
\* dict {0: u0, .., k-1: u(k-1)}, held as the sequence of its values.
GroupMappingUser(group_mapping, i) ==
    IF group_mapping = NoValue THEN i ELSE group_mapping[i + 1]

\* n_users: dataset.n_users without a mapping, the number of keys with one.
LeafCount(dataset_n_users, group_mapping) ==
    IF group_mapping = NoValue THEN dataset_n_users ELSE Len(group_mapping)

\* hierarchical_anomaly_scores as it enters its leaf loop.  queried is a
\* history field: for every get_anomaly_score call of the pass, the node
\* scored and the get_jaccard_similarity queries made, in call order.
Hierarchical(dataset_n_users, linkage_matrix, group_mapping) ==
    [kind |-> "hierarchical", rows |-> linkage_matrix,
     group_mapping |-> group_mapping,
     n_users |-> LeafCount(dataset_n_users, group_mapping),
     parents |-> <<>>, pc |-> "leaves", i |-> 0,
     groups |-> <<>>,
     anomaly_scores |->
         [k \in 1 .. (LeafCount(dataset_n_users, group_mapping) + Len(linkage_matrix)) |-> Zero],
     queried |-> <<>>,
     err |-> ""]

\* Mutant of LinkageRowGroup: the two children of the row change places.
LinkageRowGroup_swapped(h, groups, row) ==
    IF row[1] >= Len(groups) \/ row[2] >= Len(groups)
    THEN Outcome(h, None, NoValue, "IndexError")
    ELSE make_group_from_children(h, At(groups, row[2]), At(groups, row[1]))

\* The node of one linkage row; groups[child] raises IndexError for an id
\* the list does not hold yet.
LinkageRowGroup(h, groups, row) ==
    IF row[1] >= Len(groups) \/ row[2] >= Len(groups)
    THEN Outcome(h, None, NoValue, "IndexError")
    ELSE make_group_from_children(h, At(groups, row[1]), At(groups, row[2]))

\* One iteration of the leaf loop of hierarchical_anomaly_scores.
HierarchicalLeaf ==
    /\ drv.kind = "hierarchical"
    /\ drv.pc = "leaves"
    /\ \E user \in {GroupMappingUser(drv.group_mapping, drv.i)} :
       \E group \in {make_single_user_group(heap, bits, user)} :
       \E score \in {get_anomaly_score(group.h, bits, scorer, NodeArg(group.ref))} :
           /\ heap' = Settle(score.h)
           /\ drv' = [drv EXCEPT !.anomaly_scores = Put(@, drv.i, score.val),
                                 !.groups = Append(@, group.ref),
                                 !.queried = Append(@,
                                     [node |-> group.ref,
                                      pairs |-> ScoreQueries(group.h, bits, scorer,
                                                             group.ref)]),
                                 !.i = IF drv.i + 1 < drv.n_users THEN drv.i + 1 ELSE 0,
                                 !.pc = IF drv.i + 1 < drv.n_users THEN "leaves" ELSE "rows"]
    /\ UNCHANGED <<bits, scorer, last>>

\* One iteration of the row loop of hierarchical_anomaly_scores.
HierarchicalRow ==
    /\ drv.kind = "hierarchical"
    /\ drv.pc = "rows"
    /\ drv.i < Len(drv.rows)
    /\ \E group \in {LinkageRowGroup(heap, drv.groups, drv.rows[drv.i + 1])} :
           IF group.err # ""
           THEN /\ heap' = Settle(group.h)
                /\ drv' = [drv EXCEPT !.pc = "raised", !.err = group.err]
           ELSE \E score \in {get_anomaly_score(group.h, bits, scorer,
                                                NodeArg(group.ref))} :
                    /\ heap' = Settle(score.h)
                    /\ drv' = [drv EXCEPT
                                  !.anomaly_scores = Put(@, drv.i + drv.n_users, score.val),
                                  !.groups = Append(@, group.ref),
                                  !.queried = Append(@,
                                      [node |-> group.ref,
                                       pairs |-> ScoreQueries(group.h, bits, scorer,
                                                              group.ref)]),
                                  !.i = drv.i + 1]
    /\ UNCHANGED <<bits, scorer, last>>

\* return groups, anomaly_scores
HierarchicalReturn ==
    /\ drv.kind = "hierarchical"
    /\ drv.pc = "rows"
    /\ drv.i = Len(drv.rows)
    /\ drv' = [drv EXCEPT !.pc = "returned"]
    /\ UNCHANGED <<bits, heap, scorer, last>>

\* The values of the 'parent' column.
Parents(rows) == {rows[k][1] : k \in 1 .. Len(rows)}

\* Mutant of SortDescending: the parents are taken in ascending order.
RECURSIVE SortAscending(_)
SortAscending(S) ==
    IF S = {} THEN <<>>
    ELSE LET mn == CHOOSE x \in S : \A y \in S : x <= y
         IN  <<mn>> \o SortAscending(S \ {mn})

\* sort_values('parent', ascending=False).groupby('parent', sort=False): the
\* distinct parents, largest first.
RECURSIVE SortDescending(_)
SortDescending(S) ==
    IF S = {} THEN <<>>
    ELSE LET mx == CHOOSE x \in S : \A y \in S : y <= x
         IN  <<mx>> \o SortDescending(S \ {mx})

\* Mutant of ChildrenOf: only the first row of the parent is taken.
ChildrenOf_first_row(rows, parent) ==
    LET k == CHOOSE k \in 1 .. Len(rows) :
                 rows[k][1] = parent /\ \A j \in 1 .. (k - 1) : rows[j][1] # parent
    IN  <<rows[k][2]>>

\* group['child'].values: the children of one parent, in the order of the
\* rows (every order of the rows is among the inputs).
RECURSIVE ChildrenOf(_, _)
ChildrenOf(rows, parent) ==
    IF rows = <<>> THEN <<>>
    ELSE (IF Head(rows)[1] = parent THEN <<Head(rows)[2]>> ELSE <<>>)
             \o ChildrenOf(Tail(rows), parent)

\* hdbscan_tree_anomaly_scores as it enters its leaf loop.  merged is a
\* history field: the (parent, children) of every make_group_from_many_children
\* call of the parent loop, in call order.
Hdbscan(dataset_n_users, condensed_tree) ==
    [kind |-> "hdbscan", rows |-> condensed_tree,
     group_mapping |-> NoValue,
     n_users |-> dataset_n_users,
     parents |-> SortDescending(Parents(condensed_tree)),
     pc |-> "leaves", i |-> 0,
     groups |-> [k \in 1 .. (Cardinality(Parents(condensed_tree)) + dataset_n_users) |-> None],
     anomaly_scores |->
         [k \in 1 .. (Cardinality(Parents(condensed_tree)) + dataset_n_users) |-> Zero],
     merged |-> <<>>,
     err |-> ""]

\* One iteration of the leaf loop of hdbscan_tree_anomaly_scores.
HdbscanLeaf ==
    /\ drv.kind = "hdbscan"
    /\ drv.pc = "leaves"
    /\ \E user \in {drv.i} :
       \E group \in {make_single_user_group(heap, bits, user)} :
       \E score \in {get_anomaly_score(group.h, bits, scorer, NodeArg(group.ref))} :
           /\ heap' = Settle(score.h)
           /\ drv' = [drv EXCEPT !.anomaly_scores = Put(@, user, score.val),
                                 !.groups = Put(@, user, group.ref),
                                 !.i = IF drv.i + 1 < drv.n_users THEN drv.i + 1 ELSE 0,
                                 !.pc = IF drv.i + 1 < drv.n_users THEN "leaves"
                                        ELSE "parents"]
    /\ UNCHANGED <<bits, scorer, last>>

\* The group of one parent: groups[child] raises IndexError for a child
\* beyond the list, a None among the child groups raises the RuntimeError.
ParentGroup(h, b, groups, children) ==
    IF \E k \in 1 .. Len(children) : children[k] >= Len(groups)
    THEN Outcome(h, None, NoValue, "IndexError")
    ELSE LET child_groups == [k \in 1 .. Len(children) |-> At(groups, children[k])]
         IN  IF \E k \in 1 .. Len(child_groups) : child_groups[k] = None
             THEN Outcome(h, None, NoValue, "RuntimeError")
             ELSE make_group_from_many_children(h, b, child_groups, TRUE).out

\* One iteration of the parent loop of hdbscan_tree_anomaly_scores.
HdbscanParent ==
    /\ drv.kind = "hdbscan"
    /\ drv.pc = "parents"
    /\ drv.i < Len(drv.parents)
    /\ \E parent \in {drv.parents[drv.i + 1]} :
       \E group \in {ParentGroup(heap, bits, drv.groups, ChildrenOf(drv.rows, parent))} :
           IF group.err # ""
           THEN /\ heap' = Settle(group.h)
                /\ drv' = [drv EXCEPT !.pc = "raised", !.err = group.err]
           ELSE \E score \in {get_anomaly_score(group.h, bits, scorer,
                                                NodeArg(group.ref))} :
                    /\ heap' = Settle(score.h)
                    /\ drv' = IF parent >= Len(drv.anomaly_scores)
                              THEN [drv EXCEPT
                                       !.pc = "raised", !.err = "IndexError",
                                       !.merged = Append(@, <<parent,
                                                      ChildrenOf(drv.rows, parent)>>)]
                              ELSE [drv EXCEPT
                                       !.anomaly_scores = Put(@, parent, score.val),
                                       !.groups = Put(@, parent, group.ref),
                                       !.merged = Append(@, <<parent,
                                                      ChildrenOf(drv.rows, parent)>>),
                                       !.i = drv.i + 1]
    /\ UNCHANGED <<bits, scorer, last>>

\* return groups, anomaly_scores
HdbscanReturn ==
    /\ drv.kind = "hdbscan"
    /\ drv.pc = "parents"
    /\ drv.i = Len(drv.parents)
    /\ drv' = [drv EXCEPT !.pc = "returned"]
    /\ UNCHANGED <<bits, heap, scorer, last>>

NextDrivers ==
    \/ HierarchicalLeaf
    \/ HierarchicalRow
    \/ HierarchicalReturn
    \/ HdbscanLeaf
    \/ HdbscanParent
    \/ HdbscanReturn

\* Well-formed inputs.  A scipy linkage matrix over k leaves: k - 1 rows,
\* each merging two nodes built before it that no earlier row has merged,
\* the smaller id written first (every assignment of bitarrays to the users
\* is among the datasets).
ValidLinkages(k) ==
    {m \in [1 .. (k - 1) -> (0 .. (2 * k - 3)) \X (0 .. (2 * k - 3))] :
        \A i \in 1 .. (k - 1) :
            /\ m[i][1] < k + i - 1
            /\ m[i][2] < k + i - 1
            /\ m[i][1] < m[i][2]
            /\ \A j \in 1 .. (i - 1) : {m[j][1], m[j][2]} \cap {m[i][1], m[i][2]} = {}}

\* An HDBSCAN condensed tree over n points with c clusters n .. n + c - 1:
\* n is the root, every point and every other cluster is the child of one
\* cluster, a cluster's parent has a smaller id, and every cluster has two
\* or more children.
ParentMaps(n, c) ==
    {f \in [(0 .. (n - 1)) \cup ((n + 1) .. (n + c - 1)) -> n .. (n + c - 1)] :
        /\ \A x \in (n + 1) .. (n + c - 1) : f[x] < x
        /\ \A p \in n .. (n + c - 1) :
               Cardinality({x \in DOMAIN f : f[x] = p}) >= 2}

Reverse(s) == [k \in 1 .. Len(s) |-> s[Len(s) + 1 - k]]

TreeRows(f, order) == [k \in 1 .. Len(order) |-> <<f[order[k]], order[k]>>]

ValidCondensedTrees(n) ==
    UNION {{TreeRows(f, order) :
                order \in {SortDescending(DOMAIN f), Reverse(SortDescending(DOMAIN f))}} :
           f \in UNION {ParentMaps(n, c) : c \in 1 .. (n - 1)}}

\* The group mapping {0: n - 1, 1: n - 2, .., n - 2: 1}.
TailMapping(n) == [k \in 1 .. (n - 1) |-> n - k]

InitTrees ==
    /\ drv \in {Hierarchical(NUsers, m, NoValue) : m \in ValidLinkages(NUsers)}
           \cup {Hierarchical(NUsers, m, TailMapping(NUsers)) :
                     m \in ValidLinkages(NUsers - 1)}
           \cup {Hdbscan(NUsers, t) : t \in ValidCondensedTrees(NUsers)}
    /\ bits \in Datasets(NUsers)
    /\ heap = <<>>
    /\ scorer \in PlainScorers({TRUE}, {NUsers}, {15})
    /\ last = NoCall

SpecTrees == InitTrees /\ [][NextDrivers]_vars

\* Arbitrary inputs, malformed ones among them: rows naming any id up to
\* n_users + MaxRows, parents from n_users - 1 to n_users + 1.
RowIds == 0 .. (NForestUsers + MaxRows)
ParentIds == (NForestUsers - 1) .. (NForestUsers + 1)

InitDrivers ==
    /\ drv \in {Hierarchical(NForestUsers, m, g) :
                    m \in SeqsOf(RowIds \X RowIds, 0, MaxRows),
                    g \in {NoValue, <<1>>, <<1, 0>>}}
           \cup {Hdbscan(NForestUsers, t) : t \in SeqsOf(ParentIds \X RowIds, 0, MaxRows)}
    /\ bits \in OverlappingDatasets(NForestUsers)
    /\ heap = <<>>
    /\ scorer \in PlainScorers({TRUE}, {NForestUsers}, {15})
    /\ last = NoCall

SpecDrivers == InitDrivers /\ [][NextDrivers]_vars

\* Condensed trees under any numbering of the clusters: the clusters are
\* n .. n + c - 1, any one of them is the root, every point and every other
\* cluster is the child of one cluster, every cluster has a child and every
\* cluster leads to the root.
NCondensedUsers == 3
MaxCondensedClusters == 3

RECURSIVE LeadsTo(_, _, _, _)
LeadsTo(f, x, root, steps) ==
    IF x = root THEN TRUE
    ELSE IF steps = 0 THEN FALSE
    ELSE LeadsTo(f, f[x], root, steps - 1)

NumberedParentMaps(n, c) ==
    UNION {{f \in [(0 .. (n - 1)) \cup ((n .. (n + c - 1)) \ {root}) -> n .. (n + c - 1)] :
                /\ \A p \in n .. (n + c - 1) : \E x \in DOMAIN f : f[x] = p
                /\ \A x \in (n .. (n + c - 1)) \ {root} : LeadsTo(f, x, root, c)} :
           root \in n .. (n + c - 1)}

NumberedCondensedTrees(n) ==
    UNION {{TreeRows(f, order) :
                order \in {SortDescending(DOMAIN f), Reverse(SortDescending(DOMAIN f))}} :
           f \in UNION {NumberedParentMaps(n, c) : c \in 1 .. MaxCondensedClusters}}

InitCondensed ==
    /\ drv \in {Hdbscan(NCondensedUsers, t) : t \in NumberedCondensedTrees(NCondensedUsers)}
    /\ bits \in OverlappingDatasets(NCondensedUsers)
    /\ heap = <<>>
    /\ scorer \in PlainScorers({TRUE}, {NCondensedUsers}, {15})
    /\ last = NoCall

NextCondensed ==
    \/ HdbscanLeaf
    \/ HdbscanParent
    \/ HdbscanReturn

SpecCondensed == InitCondensed /\ [][NextCondensed]_vars

\* ---------------------------------------------------------------- split.py
\* The matrix to split is the dataset's user x item matrix: row r is bits[r].
\* math.ceil(a / b) for a >= 0, b > 0
Ceil(a, b) == (a + b - 1) \div b

\* All orders np.random.permutation(rows) can return (indices from 0).
ShuffledIndices(rows) ==
    {p \in [1 .. rows -> 0 .. (rows - 1)] : \A i, j \in 1 .. rows : p[i] = p[j] => i = j}

\* matrix[indices]: the rows at the indices, in the order of the indices.
RowsAt(matrix, indices) == [k \in 1 .. Len(indices) |-> matrix[indices[k]]]

\* The (groups, group_indices) pair a split returns, or the exception it
\* raises; kmeans_runs counts the KMeans fits made.
SplitOutcome(groups, group_indices, kmeans_runs, err) ==
    [groups |-> groups, group_indices |-> group_indices,
     kmeans_runs |-> kmeans_runs, err |-> err]

\* Mutant of Chunk: every chunk, the last one too, is group_size long.
Chunk_even(shuffled_indices, i, num_groups, group_size) ==
    SubSeq(shuffled_indices, i * group_size + 1, (i + 1) * group_size)

\* shuffled_indices[i * group_size:(i + 1) * group_size], and
\* shuffled_indices[i * group_size:] for the last group.
Chunk(shuffled_indices, i, num_groups, group_size) ==
    IF i = num_groups - 1
    THEN SubSeq(shuffled_indices, i * group_size + 1, Len(shuffled_indices))
    ELSE SubSeq(shuffled_indices, i * group_size + 1, (i + 1) * group_size)

split_matrix_random(matrix, max_group_size, num_groups, shuffled_indices) ==
    LET rows == n_users_of(matrix)
    IN  IF max_group_size # 0 /\ num_groups # 0
        THEN SplitOutcome(<<>>, <<>>, 0, "ValueError")
        ELSE IF max_group_size = 0 /\ num_groups = 0
        THEN SplitOutcome(<<>>, <<>>, 0, "ValueError")
        ELSE
        LET n == IF max_group_size # 0 THEN Ceil(rows, max_group_size) ELSE num_groups
        IN  IF n = 0 THEN SplitOutcome(<<>>, <<>>, 0, "ZeroDivisionError")
            ELSE
            LET group_size == rows \div n
                group_indices == [i \in 1 .. n |->
                                     Chunk(shuffled_indices, i - 1, n, group_size)]
                groups == [i \in 1 .. n |-> RowsAt(matrix, group_indices[i])]
            IN  SplitOutcome(groups, group_indices, 0, "")

\* np.where(labels == i)[0]: the rows of label i, ascending.
RECURSIVE Where(_, _, _)
Where(labels, i, r) ==
    IF r \notin DOMAIN labels THEN <<>>
    ELSE (IF labels[r] = i THEN <<r>> ELSE <<>>) \o Where(labels, i, r + 1)

\* _split_matrix_kmeans given the labels KMeans has fitted.
_split_matrix_kmeans(matrix, num_groups, labels) ==
    LET group_indices == [i \in 1 .. num_groups |-> Where(labels, i - 1, 0)]
        groups == [i \in 1 .. num_groups |-> RowsAt(matrix, group_indices[i])]
    IN  [groups |-> groups, group_indices |-> group_indices]

\* max([len(group) for group in groups])
MaxLen(groups) ==
    CHOOSE x \in {Len(groups[i]) : i \in 1 .. Len(groups)} :
        \A i \in 1 .. Len(groups) : Len(groups[i]) <= x

\* The labels KMeans(n_clusters) may fit: any assignment of the rows to the
\* clusters.
Labelings(rows, n_clusters) == [0 .. (rows - 1) -> 0 .. (n_clusters - 1)]

\* The outcome of split_matrix_kmeans.  attempts is a history field: the
\* n_clusters of every KMeans fit made and the largest group length it
\* gave, in call order.
KmeansOutcome(out, kmeans_runs, attempts) ==
    [groups |-> out.groups, group_indices |-> out.group_indices,
     kmeans_runs |-> kmeans_runs, err |-> out.err, attempts |-> attempts]


\* num_groups+i
TrialClusters(num_groups, i) == num_groups + i

\* The trial loop of split_matrix_kmeans from trial i on: the outcomes the
\* call can have.  KMeans raises ValueError for more clusters than rows; the
\* for-else falls back on split_matrix_random.
RECURSIVE KmeansTrials(_, _, _, _, _, _)
KmeansTrials(matrix, num_groups, max_group_size, trials, i, attempts) ==
    LET rows == n_users_of(matrix)
        n_clusters == TrialClusters(num_groups, i)
    IN  IF i = trials
        THEN {KmeansOutcome(split_matrix_random(matrix, max_group_size, 0, p), i, attempts) :
                  p \in ShuffledIndices(rows)}
        ELSE IF n_clusters > rows \/ n_clusters = 0
        THEN {KmeansOutcome(SplitOutcome(<<>>, <<>>, i, "ValueError"), i, attempts)}
        ELSE
        LET fits == {_split_matrix_kmeans(matrix, n_clusters, labels) :
                         labels \in Labelings(rows, n_clusters)}
            tried(f) == Append(attempts, [n_clusters |-> n_clusters,
                                          largest |-> MaxLen(f.groups)])
        IN  {KmeansOutcome(SplitOutcome(f.groups, f.group_indices, i + 1, ""),
                           i + 1, tried(f)) :
                 f \in {g \in fits : MaxLen(g.groups) <= max_group_size}}
            \cup UNION {KmeansTrials(matrix, num_groups, max_group_size, trials,
                                     i + 1, a) :
                            a \in {tried(g) : g \in {g \in fits :
                                        MaxLen(g.groups) > max_group_size}}}

split_matrix_kmeans(matrix, num_groups, max_group_size, trials) ==
    IF num_groups = 0 /\ max_group_size = 0
    THEN {KmeansOutcome(SplitOutcome(<<>>, <<>>, 0, "ZeroDivisionError"), 0, <<>>)}
    ELSE KmeansTrials(matrix,
                      IF num_groups = 0 THEN Ceil(n_users_of(matrix), max_group_size)
                      ELSE num_groups,
                      max_group_size, trials, 0, <<>>)

\* {i: indices[i] for i in range(len(group))}, a dict keyed 0 .. len(group) - 1.
build_group_mapping(group, indices) ==
    [i \in 0 .. (Len(group) - 1) |-> indices[i + 1]]

build_group_split_mappings(groups, group_indices) ==
    [i \in 1 .. Len(groups) |-> build_group_mapping(groups[i], group_indices[i])]

\* Mutant of MapCluster: the user itself is kept, not its image.
MapCluster_identity(group_mapping, cluster) ==
    [k \in 1 .. Len(cluster) |-> cluster[k]]

\* [group_mappings[group][user] for user in cluster]
MapCluster(group_mapping, cluster) ==
    [k \in 1 .. Len(cluster) |-> group_mapping[cluster[k]]]

\* The two loops of merge_splits_after_clustering from split `group` on.
RECURSIVE MergeClusters(_, _, _)
MergeClusters(group_mappings, clusters, group) ==
    IF group > Len(clusters) THEN <<>>
    ELSE [k \in 1 .. Len(clusters[group]) |->
             MapCluster(group_mappings[group], clusters[group][k])]
         \o MergeClusters(group_mappings, clusters, group + 1)

\* merge_splits_after_clustering.  indices[i] raises IndexError for a group
\* longer than its index list, group_mappings[group] for clusters of a split
\* that does not exist, and the dict raises KeyError for a user outside the
\* group.
merge_splits_after_clustering(groups, group_indices, clusters) ==
    IF \/ Len(group_indices) < Len(groups)
       \/ \E i \in 1 .. Len(groups) : Len(group_indices[i]) < Len(groups[i])
       \/ \E g \in 1 .. Len(clusters) : g > Len(groups) /\ clusters[g] # <<>>
    THEN [val |-> NoValue, err |-> "IndexError"]
    ELSE IF \E g \in 1 .. Len(clusters) : \E k \in 1 .. Len(clusters[g]) :
                \E u \in 1 .. Len(clusters[g][k]) :
                    clusters[g][k][u] \notin 0 .. (Len(groups[g]) - 1)
    THEN [val |-> NoValue, err |-> "KeyError"]
    ELSE [val |-> MergeClusters(build_group_split_mappings(groups, group_indices),
                                clusters, 1),
          err |-> ""]

\* A leaf's child pair is (None, None); None among ids is NoChild.
NoChild == 0 - 1

\* Mutant of OffsetChildren: the ids are copied without the offset.
OffsetChildren_unshifted(children, counter) == children

\* Lines 154-155: both ids shifted by counter unless one of them is None.
OffsetChildren(children, counter) ==
    IF children[1] # NoChild /\ children[2] # NoChild
    THEN <<children[1] + counter, children[2] + counter>>
    ELSE children

\* The loop of merge_hierarchical_splits from split k on.
RECURSIVE MergeSplits(_, _, _, _)
MergeSplits(splits, k, counter, acc) ==
    IF k > Len(splits) THEN acc
    ELSE LET clusters == splits[k][1]
             childrens == splits[k][2]
             anomaly_scores == splits[k][3]
         IN  MergeSplits(splits, k + 1, counter + Len(clusters),
                 [all_clusters |-> acc.all_clusters \o clusters,
                  all_children |-> acc.all_children
                      \o [j \in 1 .. Len(childrens) |->
                             OffsetChildren(childrens[j], counter)],
                  all_anomaly_scores |-> acc.all_anomaly_scores \o anomaly_scores])

merge_hierarchical_splits(splits) ==
    MergeSplits(splits, 1, 0,
                [all_clusters |-> <<>>, all_children |-> <<>>,
                 all_anomaly_scores |-> <<>>])

\* ------------------------------------------------- split and merge calls
\* The matrix of n rows whose row r holds the products at the set bits of r.
CountingMatrix(n) ==
    [r \in 0 .. (n - 1) |-> {i \in Items : (r \div (2 ^ (i - 1))) % 2 = 1}]

\* A call that has been made and has not run yet.
Call(fn, args) == [op |-> "call", fn |-> fn, args |-> args]

SplitArgs ==
    [max_group_size : 0 .. MaxSplitParam, num_groups : 0 .. MaxSplitParam,
     trials : 1 .. MaxTrials]

\* Per-split inputs of merge_splits_after_clustering: the rows of a split
\* (two distinct row indices) and its local clusters, each an ordering of
\* some of the users 0, 1.
MergeIndexLists == {g \in [1 .. 2 -> 0 .. 2] : g[1] # g[2]}
LocalClusters == {c \in SeqsOf(0 .. 1, 1, 2) : Cardinality(SeqSet(c)) = Len(c)}
LocalClusterLists == SeqsOf(LocalClusters, 0, 2)

MergeArgs ==
    {[group_indices |-> gi, clusters |-> cl,
      groups |-> [i \in 1 .. Len(gi) |-> RowsAt(CountingMatrix(3), gi[i])]] :
         gi \in SeqsOf(MergeIndexLists, 2, 2),
         cl \in SeqsOf(LocalClusterLists, 2, 2)}

\* A split of merge_hierarchical_splits: c clusters, one child pair each
\* ((None, None) or two ids of the split) and one score each.
ScoreValues == {Zero, Rat(1, 2)}

HierarchicalSplits(tag) ==
    UNION {{<<[j \in 1 .. c |-> <<tag, j>>], ch, sc>> :
                ch \in [1 .. c -> {<<NoChild, NoChild>>}
                                      \cup ((0 .. (c - 1)) \X (0 .. (c - 1)))],
                sc \in [1 .. c -> ScoreValues]} : c \in 1 .. 2}

HierarchicalMergeArgs ==
    {[splits |-> <<>>]}
        \cup {[splits |-> <<s1>>] : s1 \in HierarchicalSplits(1)}
        \cup {[splits |-> <<s1, s2>>] :
                  s1 \in HierarchicalSplits(1), s2 \in HierarchicalSplits(2)}

SplitMatrixRandom ==
    /\ last.op = "call"
    /\ last.fn = "split_matrix_random"
    /\ \E shuffled_indices \in ShuffledIndices(n_users_of(bits)) :
       \E out \in {split_matrix_random(bits, last.args.max_group_size,
                                       last.args.num_groups, shuffled_indices)} :
           last' = [op |-> "split_matrix_random", args |-> last.args,
                    shuffled_indices |-> IF out.err = "" THEN shuffled_indices
                                         ELSE <<>>,
                    groups |-> out.groups, group_indices |-> out.group_indices,
                    kmeans_runs |-> out.kmeans_runs, attempts |-> <<>>,
                    err |-> out.err]
    /\ UNCHANGED <<bits, heap, scorer, drv>>

SplitMatrixKmeans ==
    /\ last.op = "call"
    /\ last.fn = "split_matrix_kmeans"
    /\ \E out \in split_matrix_kmeans(bits, last.args.num_groups,
                                      last.args.max_group_size, last.args.trials) :
           last' = [op |-> "split_matrix_kmeans", args |-> last.args,
                    shuffled_indices |-> <<>>,
                    groups |-> out.groups, group_indices |-> out.group_indices,
                    kmeans_runs |-> out.kmeans_runs, attempts |-> out.attempts,
                    err |-> out.err]
    /\ UNCHANGED <<bits, heap, scorer, drv>>

MergeSplitsAfterClustering ==
    /\ last.op = "call"
    /\ last.fn = "merge_splits_after_clustering"
    /\ \E out \in {merge_splits_after_clustering(last.args.groups,
                                                 last.args.group_indices,
                                                 last.args.clusters)} :
           last' = [op |-> "merge_splits_after_clustering", args |-> last.args,
                    all_clusters |-> out.val, err |-> out.err]
    /\ UNCHANGED <<bits, heap, scorer, drv>>

MergeHierarchicalSplits ==
    /\ last.op = "call"
    /\ last.fn = "merge_hierarchical_splits"
    /\ \E out \in {merge_hierarchical_splits(last.args.splits)} :
           last' = [op |-> "merge_hierarchical_splits", args |-> last.args,
                    all_clusters |-> out.all_clusters,
                    all_children |-> out.all_children,
                    all_anomaly_scores |-> out.all_anomaly_scores, err |-> ""]
    /\ UNCHANGED <<bits, heap, scorer, drv>>

InitSplit ==
    /\ bits \in {CountingMatrix(n) : n \in 1 .. MaxMatrixRows}
    /\ heap = <<>>
    /\ scorer = NoScorer
    /\ drv = NoDriver
    /\ last \in {Call("split_matrix_random", a) : a \in SplitArgs}
            \cup {Call("split_matrix_kmeans", a) : a \in SplitArgs}
            \cup (IF n_users_of(bits) = 3
                  THEN {Call("merge_splits_after_clustering", a) : a \in MergeArgs}
                       \cup {Call("merge_hierarchical_splits", a) :
                                 a \in HierarchicalMergeArgs}
                  ELSE {})

NextSplit ==
    \/ SplitMatrixRandom
    \/ SplitMatrixKmeans
    \/ MergeSplitsAfterClustering
    \/ MergeHierarchicalSplits

SpecSplit == InitSplit /\ [][NextSplit]_vars

\* ------------------------------------------------------- post-processing
RatLess(x, y) == x[1] * y[2] < y[1] * x[2]

\* Mutant of Raises: every score replaces the user's score.
Raises_always(current, score) == TRUE

\* user_anomaly_scores[user] < score
Raises(current, score) == RatLess(current, score)

\* The inner loop of userwise_anomaly_scores over the users of one cluster.
RECURSIVE UserwiseCluster(_, _, _)
UserwiseCluster(cluster, score, user_anomaly_scores) ==
    IF cluster = <<>> THEN user_anomaly_scores
    ELSE UserwiseCluster(Tail(cluster), score,
             IF Raises(At(user_anomaly_scores, Head(cluster)), score)
             THEN Put(user_anomaly_scores, Head(cluster), score)
             ELSE user_anomaly_scores)

\* The outer loop, from score i on.
RECURSIVE UserwiseLoop(_, _, _, _)
UserwiseLoop(clusters, anomaly_scores, i, user_anomaly_scores) ==
    IF i > Len(anomaly_scores) THEN user_anomaly_scores
    ELSE UserwiseLoop(clusters, anomaly_scores, i + 1,
             UserwiseCluster(clusters[i], anomaly_scores[i], user_anomaly_scores))

userwise_anomaly_scores(clusters, anomaly_scores, n_users) ==
    UserwiseLoop(clusters, anomaly_scores, 1, [u \in 1 .. n_users |-> Zero])

\* Mutant of Keeps: a cluster of exactly min_group_size users is kept too.
Keeps_at_most(cluster, min_group_size) == Len(cluster) <= min_group_size

\* len(cluster) < min_group_size
Keeps(cluster, min_group_size) == Len(cluster) < min_group_size

\* The loop of filter_small_groups from cluster i on.
RECURSIVE FilterLoop(_, _, _, _)
FilterLoop(clusters, anomaly_scores, min_group_size, i) ==
    IF i > Len(clusters)
    THEN [filtered_clusters |-> <<>>, filtered_anomaly_scores |-> <<>>]
    ELSE LET rest == FilterLoop(clusters, anomaly_scores, min_group_size, i + 1)
         IN  IF Keeps(clusters[i], min_group_size)
             THEN [filtered_clusters |-> <<clusters[i]>> \o rest.filtered_clusters,
                   filtered_anomaly_scores |->
                       <<anomaly_scores[i]>> \o rest.filtered_anomaly_scores]
             ELSE rest

filter_small_groups(clusters, anomaly_scores, min_group_size) ==
    FilterLoop(clusters, anomaly_scores, min_group_size, 1)

\* Inputs of the post-processing calls.
MaxClusters == 3     \* clusters of a clustering to filter
PostUsers == 3       \* n_users of userwise_anomaly_scores
PostScores == {Zero, Rat(1, 2), One}

MeanArgs ==
    [scores : [1 .. 3 -> PostScores],
     weights : {GeometricWeights, <<One, One, One>>}]

Scored(clusterings) ==
    UNION {{[clusters |-> cl, anomaly_scores |-> sc] :
                sc \in [1 .. Len(cl) -> PostScores]} : cl \in clusterings}

UserwiseArgs ==
    {[clusters |-> a.clusters, anomaly_scores |-> a.anomaly_scores,
      n_users |-> PostUsers] :
         a \in Scored(SeqsOf(SeqsOf(0 .. (PostUsers - 1), 0, 2), 0, 2))}

FilterArgs ==
    {[clusters |-> a.clusters, anomaly_scores |-> a.anomaly_scores,
      min_group_size |-> m] :
         a \in Scored(SeqsOf({<<>>, <<0>>, <<0, 1>>, <<1, 0, 2>>}, 0, MaxClusters)),
         m \in 0 .. 3}

WeightedGeometricMean ==
    /\ last.op = "call"
    /\ last.fn = "weighted_geometric_mean"
    /\ last' = [op |-> "weighted_geometric_mean", args |-> last.args,
                val |-> weighted_geometric_mean(last.args.scores, last.args.weights)]
    /\ UNCHANGED <<bits, heap, scorer, drv>>

WeightedHarmonicMean ==
    /\ last.op = "call"
    /\ last.fn = "weighted_harmonic_mean"
    /\ last' = [op |-> "weighted_harmonic_mean", args |-> last.args,
                val |-> weighted_harmonic_mean(last.args.scores, last.args.weights)]
    /\ UNCHANGED <<bits, heap, scorer, drv>>

UserwiseAnomalyScores ==
    /\ last.op = "call"
    /\ last.fn = "userwise_anomaly_scores"
    /\ last' = [op |-> "userwise_anomaly_scores", args |-> last.args,
                val |-> userwise_anomaly_scores(last.args.clusters,
                                                last.args.anomaly_scores,
                                                last.args.n_users)]
    /\ UNCHANGED <<bits, heap, scorer, drv>>

FilterSmallGroups ==
    /\ last.op = "call"
    /\ last.fn = "filter_small_groups"
    /\ \E out \in {filter_small_groups(last.args.clusters, last.args.anomaly_scores,
                                       last.args.min_group_size)} :
           last' = [op |-> "filter_small_groups", args |-> last.args,
                    filtered_clusters |-> out.filtered_clusters,
                    filtered_anomaly_scores |-> out.filtered_anomaly_scores]
    /\ UNCHANGED <<bits, heap, scorer, drv>>

\* get_anomaly_score of a scorer that uses metadata.
GetAnomalyScoreWithMetadata ==
    /\ scorer.use_metadata
    /\ GetAnomalyScore

\* Either a post-processing call is pending, or a scorer with metadata
\* stands over a built forest.
InitPost ==
    /\ drv = NoDriver
    /\ \/ /\ bits = CountingMatrix(1)
          /\ heap = <<>>
          /\ scorer = NoScorer
          /\ last \in {Call("weighted_geometric_mean", a) : a \in MeanArgs}
                  \cup {Call("weighted_harmonic_mean", a) : a \in MeanArgs}
                  \cup {Call("userwise_anomaly_scores", a) : a \in UserwiseArgs}
                  \cup {Call("filter_small_groups", a) : a \in FilterArgs}
       \/ /\ bits \in Datasets(NForestUsers)
          /\ heap = PairForest(bits)
          /\ scorer \in MetadataScorers({FALSE}, {NForestUsers}, {15}, NForestUsers)
          /\ last = NoCall

NextPost ==
    \/ WeightedGeometricMean
    \/ WeightedHarmonicMean
    \/ UserwiseAnomalyScores
    \/ FilterSmallGroups
    \/ GetAnomalyScoreWithMetadata

SpecPost == InitPost /\ [][NextPost]_vars

\* ------------------------------------------------------------------ claims
\* The statistics two nodes are compared on: the set of users, the counts
\* and the two bitsets.
Stats(node) ==
    [users |-> SeqSet(node.users),
     n_users |-> node.n_users,
     n_total_reviews |-> node.n_total_reviews,
     group_product_set_union |-> node.group_product_set_union,
     group_product_set_intersection |-> node.group_product_set_intersection,
     n_total_products_reviewed |-> node.n_total_products_reviewed,
     n_common_products_reviewed |-> node.n_common_products_reviewed]

\* C1: make_group_from_children(a, b) returns a new node whose fields are
\* the closed-form combination of its children's: users concatenated, counts
\* added, union OR-ed, intersection AND-ed, the two popcounts those of the
\* new bitsets, child1 = a and child2 = b.
C1_MergeClosedForm ==
    last.op = "make_group_from_children" =>
        /\ last.err = ""
        /\ last.ref = Len(heap)
        /\ last.ref \notin {last.child1, last.child2}
        /\ LET g == heap[last.ref]
               a == heap[last.child1]
               b == heap[last.child2]
           IN  /\ g.users = a.users \o b.users
               /\ g.n_users = a.n_users + b.n_users
               /\ g.n_total_reviews = a.n_total_reviews + b.n_total_reviews
               /\ g.group_product_set_union
                      = a.group_product_set_union \cup b.group_product_set_union
               /\ g.group_product_set_intersection
                      = a.group_product_set_intersection \cap b.group_product_set_intersection
               /\ g.n_total_products_reviewed
                      = Cardinality(a.group_product_set_union \cup b.group_product_set_union)
               /\ g.n_common_products_reviewed
                      = Cardinality(a.group_product_set_intersection
                                        \cap b.group_product_set_intersection)
               /\ g.child1 = last.child1
               /\ g.child2 = last.child2

\* A merge of two different nodes that loses a common product and gains a
\* product, the second child bringing reviews of its own.
C1_Witness ==
    /\ last.op = "make_group_from_children"
    /\ last.child1 # last.child2
    /\ heap[last.child2].n_total_reviews > 0
    /\ heap[last.ref].n_common_products_reviewed
           < heap[last.child1].n_common_products_reviewed
    /\ heap[last.ref].n_total_products_reviewed
           > heap[last.child1].n_total_products_reviewed

\* C2: in every node built by make_single_user_group, make_group,
\* make_group_from_children and make_group_from_many_children (either mode)
\* the product intersection is a bitwise subset of the product union:
\* intersection AND union = intersection.
C2_IntersectionSubsetOfUnion ==
    \A n \in Refs :
        heap[n].group_product_set_intersection \cap heap[n].group_product_set_union
            = heap[n].group_product_set_intersection

\* The arena holds a node of each kind of construction, one of them with a
\* non-empty intersection strictly inside its union.
C2_Witness ==
    /\ \E n \in Refs : heap[n].child1 = None /\ heap[n].n_users >= 2
    /\ \E n \in Refs :
           /\ heap[n].child1 # None
           /\ heap[n].group_product_set_intersection # {}
           /\ heap[n].group_product_set_intersection # heap[n].group_product_set_union
    /\ last.op = "make_group_from_many_children"
    /\ last.err = ""
    /\ Len(last.children) >= 2

\* C10: for the same list of children, make_group_from_many_children in
\* recursive mode and in iterative mode return nodes with identical final
\* statistics (users as a set, n_users, n_total_reviews, union, intersection
\* and the two popcounts).  The mode the last call did not use is applied to
\* the same list; the recursive mode reads and writes no cache, so the
\* arena the call left is as good as the one it found.
C10_ModesAgree ==
    (last.op = "make_group_from_many_children" /\ Len(last.children) >= 1) =>
        LET other == make_group_from_many_children(heap, bits, last.children,
                                                   ~last.recursive).out
        IN  /\ last.err = ""
            /\ other.err = ""
            /\ Stats(heap[last.ref]) = Stats(other.h[other.ref])

\* What does hold of the two modes: whenever both return, the statistics agree.
ModesAgreeWhenBothReturn ==
    (last.op = "make_group_from_many_children" /\ Len(last.children) >= 1) =>
        LET other == make_group_from_many_children(heap, bits, last.children,
                                                   ~last.recursive).out
        IN  (last.err = "" /\ other.err = "") =>
                Stats(heap[last.ref]) = Stats(other.h[other.ref])

\* average_jaccard by enumeration of all ordered pairs of the users at
\* positions 1 .. n of the list, a position paired with itself counting 1.
BruteForceSum(b, users) ==
    RatSum([k \in 1 .. Len(users) * Len(users) |->
        LET i == ((k - 1) \div Len(users)) + 1
            j == ((k - 1) % Len(users)) + 1
        IN  IF i = j THEN One ELSE get_jaccard_similarity(b, users[i], users[j])])

BruteForceAverageJaccard(b, users) ==
    RatDivInt(BruteForceSum(b, users), Len(users) * Len(users))

\* C4: get_anomaly_score called with a raw list of 2 .. max_group_size users
\* builds the node with make_group, computes its average_jaccard by
\* brute-force enumeration of all pairs, and returns a score.
C4_RawListScored ==
    (/\ last.op = "get_anomaly_score"
     /\ last.group.kind = "list"
     /\ last.size >= 2
     /\ last.size <= scorer.max_group_size) =>
        /\ last.err = ""
        /\ last.built # NoValue
        /\ last.built[1].users = last.group.users
        /\ last.built[1].average_jaccard = BruteForceAverageJaccard(bits, last.group.users)

\* C5 as stated: over any sequence of scoring operations, a penalty or
\* average_jaccard field that holds a value is never assigned again (and
\* no call assigns a field twice).
C5_WriteOnce ==
    last.op \in {"_average_jaccard", "group_anomaly_compactness", "get_anomaly_score"} =>
        /\ last.aj_rewritten = {}
        /\ last.pen_rewritten = {}

\* C5 amended: an average_jaccard field that holds a value never changes
\* value, and the only node whose held average_jaccard a call assigns again
\* is the node the call is made on (a parent never recomputes a cached
\* child); the penalty field is assigned by every group_anomaly_compactness
\* call, on the node of the call only.
Target(call) ==
    IF call.op = "get_anomaly_score"
    THEN (IF call.group.kind = "node" THEN {call.group.ref} ELSE {})
    ELSE {call.self}

C5_AverageJaccardStable ==
    [][/\ \A n \in Refs :
              heap[n].average_jaccard # NoValue =>
                  heap'[n].average_jaccard = heap[n].average_jaccard
       /\ last'.aj_rewritten \subseteq Target(last')
       /\ last'.pen_rewritten \subseteq Target(last')
       /\ \A n \in Refs :
              heap'[n].penalty # heap[n].penalty => n \in Target(last')]_vars

\* A compactness call on a merged node whose two caches already hold
\* values: both are assigned again, the penalty with a new value.
C5_Witness ==
    /\ last.op = "group_anomaly_compactness"
    /\ heap[last.self].child1 # None
    /\ last.aj_rewritten = {last.self}
    /\ last.pen_rewritten = {last.self}
    /\ last.err = ""
    /\ \A n \in Refs : heap[n].average_jaccard # NoValue

\* C6: get_anomaly_score returns exactly 0 for every group (node or raw
\* list) of more than max_group_size users, whatever the configuration,
\* without building a node or assigning any cache field; a group of exactly
\* max_group_size users is not capped: its penalty is assigned (a node) or
\* make_group builds its node (a raw list).
C6_SizeCap ==
    last.op = "get_anomaly_score" =>
        /\ last.size > scorer.max_group_size =>
               /\ last.val = Zero
               /\ last.err = ""
               /\ last.built = NoValue
               /\ last.written = {}
        /\ last.size = scorer.max_group_size =>
               /\ last.group.kind = "node" => last.group.ref \in last.written
               /\ last.group.kind = "list" => last.built # NoValue

\* A node of more users than max_group_size whose users share a product
\* (its compactness is not 0) is scored 0, with metadata in use.
C6_Witness ==
    /\ last.op = "get_anomaly_score"
    /\ last.group.kind = "node"
    /\ last.size > scorer.max_group_size
    /\ heap[last.group.ref].group_product_set_intersection # {}
    /\ scorer.use_metadata
    /\ scorer.enable_penalty
    /\ last.val = Zero

\* C3: in every binary merge tree the tree drivers build over distinct
\* users, a node's average_jaccard, obtained through the recursive identity,
\* is the brute-force all-pairs average over the node's users:
\* n^2 * average_jaccard = the sum of jaccard(i, j) over all ordered pairs,
\* a user paired with itself counting 1.  Two nodes over the same users
\* therefore hold the same value whatever their shape.
DistinctUsers(node) == Cardinality(SeqSet(node.users)) = node.n_users

C3_RecursiveIdentity ==
    \A n \in Refs :
        (DistinctUsers(heap[n]) /\ heap[n].average_jaccard # NoValue) =>
            RatMul(heap[n].average_jaccard, RatInt(heap[n].n_users * heap[n].n_users))
                = BruteForceSum(bits, heap[n].users)

\* A root over all the users of the dataset, both of whose children are
\* merges, holds an average strictly between 0 and 1.
C3_Witness ==
    \E n \in Refs :
        /\ heap[n].n_users = NUsers
        /\ DistinctUsers(heap[n])
        /\ heap[n].child1 # None
        /\ heap[heap[n].child1].n_users >= 2
        /\ heap[heap[n].child2].n_users >= 2
        /\ heap[n].average_jaccard \notin {NoValue, Zero, One}

\* The driver has returned its (groups, anomaly_scores) pair.
Returned == drv.pc = "returned"

InternalNodes ==
    IF drv.kind = "hierarchical" THEN Len(drv.rows) ELSE Cardinality(Parents(drv.rows))

\* Entry k of the score array is the score of entry k of the node list.
ScoresMatch ==
    \A k \in 0 .. (Len(drv.groups) - 1) :
        /\ At(drv.groups, k) # None
        /\ At(drv.anomaly_scores, k)
               = get_anomaly_score(heap, bits, scorer, NodeArg(At(drv.groups, k))).val

LeavesFirst ==
    \A k \in 0 .. (drv.n_users - 1) :
        /\ heap[At(drv.groups, k)].n_users = 1
        /\ heap[At(drv.groups, k)].child1 = None

\* The internal entries were created in the order of their indices.
CreationOrder ==
    \A j, k \in drv.n_users .. (Len(drv.groups) - 1) :
        j < k => At(drv.groups, j) < At(drv.groups, k)

\* The internal entries were created in the reverse order of their indices.
ReverseCreationOrder ==
    \A j, k \in drv.n_users .. (Len(drv.groups) - 1) :
        j < k => At(drv.groups, j) > At(drv.groups, k)

\* Entry k is the root: the node over all the leaves.
RootAt(k) == heap[At(drv.groups, k)].n_users = drv.n_users

\* C7 as stated: for both drivers the returned node list and score array
\* have length n_leaves + n_internal_nodes, entry k of the score array is
\* the score of entry k of the node list, the leaves occupy [0, n_leaves),
\* the internal nodes the subsequent indices in creation order, and the
\* final index holds the root.
C7_CreationOrderRootLast ==
    Returned =>
        /\ Len(drv.groups) = drv.n_users + InternalNodes
        /\ Len(drv.anomaly_scores) = drv.n_users + InternalNodes
        /\ ScoresMatch
        /\ LeavesFirst
        /\ CreationOrder
        /\ RootAt(Len(drv.groups) - 1)

\* C7 amended: on a well-formed tree both drivers return, the node list and
\* the score array have length n_leaves + n_internal_nodes, entry k of the
\* score array is the score of entry k of the node list and the leaves
\* occupy [0, n_leaves).  hierarchical_anomaly_scores holds the internal
\* nodes in creation order with the root at the final index;
\* hdbscan_tree_anomaly_scores holds the node of parent id k at index k,
\* creates them in descending order of id and holds the root at index
\* n_leaves.
C7_IndexedByNodeId ==
    /\ drv.pc # "raised"
    /\ Returned =>
           /\ Len(drv.groups) = drv.n_users + InternalNodes
           /\ Len(drv.anomaly_scores) = drv.n_users + InternalNodes
           /\ ScoresMatch
           /\ LeavesFirst
           /\ drv.kind = "hierarchical" =>
                  /\ CreationOrder
                  /\ RootAt(Len(drv.groups) - 1)
           /\ drv.kind = "hdbscan" =>
                  /\ ReverseCreationOrder
                  /\ RootAt(drv.n_users)
                  /\ \A k \in drv.n_users .. (Len(drv.groups) - 1) :
                         \A c \in SeqSet(ChildrenOf(drv.rows, k)) :
                             SeqSet(heap[At(drv.groups, c)].users)
                                 \subseteq SeqSet(heap[At(drv.groups, k)].users)

\* hdbscan_tree_anomaly_scores has returned a tree of three clusters: the
\* root at index n_users, created last.
C7_Witness ==
    /\ Returned
    /\ drv.kind = "hdbscan"
    /\ InternalNodes = 3
    /\ RootAt(drv.n_users)
    /\ At(drv.groups, drv.n_users) = Len(heap)
    /\ At(drv.anomaly_scores, drv.n_users) # Zero

\* C8: hierarchical_anomaly_scores consumes the linkage rows strictly in
\* row order: leaf i is the single-user node of user group_mapping[i]
\* (identity by default), row i produces node id n_users + i as
\* make_group_from_children of the two nodes the row names, both of ids
\* below n_users + i, and a row naming an id that is not built yet produces
\* no node (the call raises).
C8_RowsInOrder ==
    drv.kind = "hierarchical" =>
        /\ Len(heap) = Len(drv.groups)
        /\ \A k \in 0 .. (Len(drv.groups) - 1) :
               LET node == heap[At(drv.groups, k)]
               IN  IF k < drv.n_users
                   THEN /\ node.users = <<GroupMappingUser(drv.group_mapping, k)>>
                        /\ node.child1 = None
                        /\ node.child2 = None
                   ELSE LET row == drv.rows[k - drv.n_users + 1]
                        IN  /\ row[1] < k
                            /\ row[2] < k
                            /\ node.child1 = At(drv.groups, row[1])
                            /\ node.child2 = At(drv.groups, row[2])
                            /\ node.users = heap[At(drv.groups, row[1])].users
                                                \o heap[At(drv.groups, row[2])].users
        /\ drv.pc = "leaves" => Len(drv.groups) = drv.i
        /\ drv.pc = "rows" => Len(drv.groups) = drv.n_users + drv.i
        /\ drv.pc = "returned" => Len(drv.groups) = drv.n_users + Len(drv.rows)
        /\ drv.pc = "raised" =>
               /\ Len(drv.groups) = drv.n_users + drv.i
               /\ drv.i < Len(drv.rows)
               /\ \/ drv.rows[drv.i + 1][1] >= drv.n_users + drv.i
                  \/ drv.rows[drv.i + 1][2] >= drv.n_users + drv.i

\* Two rows consumed under a group mapping, the second merging the node of
\* the first with a leaf.
C8_Witness ==
    /\ drv.kind = "hierarchical"
    /\ Returned
    /\ drv.group_mapping = <<1, 0>>
    /\ Len(drv.rows) = 2
    /\ drv.rows[1][1] # drv.rows[1][2]
    /\ drv.rows[2] = <<drv.n_users, 0>>

\* The parent the loop of hdbscan_tree_anomaly_scores is at names a child
\* that has no built node.
MissingChild ==
    /\ drv.kind = "hdbscan"
    /\ drv.pc = "parents"
    /\ drv.i < Len(drv.parents)
    /\ \E c \in SeqSet(ChildrenOf(drv.rows, drv.parents[drv.i + 1])) :
           \/ c >= Len(drv.groups)
           \/ At(drv.groups, c) = None

\* C9: hdbscan_tree_anomaly_scores fails with the descriptive
\* structural/validation error, and returns no result, whenever a row's
\* child id has no built node when its parent is processed; no node or
\* score is substituted for the missing child.
C9_DescriptiveError ==
    [][MissingChild =>
           /\ drv'.pc = "raised"
           /\ drv'.err = "RuntimeError"
           /\ drv'.groups = drv.groups
           /\ drv'.anomaly_scores = drv.anomaly_scores
           /\ heap' = heap]_vars

\* What does hold: a missing child always ends the call with an exception,
\* the RuntimeError or an IndexError, and nothing is substituted.
MissingChildRaises ==
    [][MissingChild =>
           /\ drv'.pc = "raised"
           /\ drv'.err \in {"RuntimeError", "IndexError"}
           /\ drv'.groups = drv.groups
           /\ drv'.anomaly_scores = drv.anomaly_scores
           /\ heap' = heap]_vars

\* The last call was a split that has run.
SplitRan == last.op \in {"split_matrix_random", "split_matrix_kmeans"}

BothOrNeither ==
    \/ last.args.max_group_size # 0 /\ last.args.num_groups # 0
    \/ last.args.max_group_size = 0 /\ last.args.num_groups = 0

\* C11: for either split strategy, max_group_size and num_groups both
\* nonzero, or both zero, fails before any splitting or clustering is done;
\* exactly one of them nonzero is accepted and yields a split.
C11_ExactlyOneParameter ==
    SplitRan =>
        IF BothOrNeither
        THEN /\ last.err # ""
             /\ last.kmeans_runs = 0
             /\ last.groups = <<>>
        ELSE last.err = ""

\* What does hold: split_matrix_random behaves as C11 says.
RandomExactlyOneParameter ==
    last.op = "split_matrix_random" =>
        IF BothOrNeither
        THEN last.err = "ValueError" /\ last.groups = <<>>
        ELSE last.err = ""

\* C12: every group a split returns under max_group_size = m > 0 (the
\* random split, the k-means split and its random fallback) has at most m
\* rows.
C12_GroupsBounded ==
    (SplitRan /\ last.err = "" /\ last.args.max_group_size > 0) =>
        \A i \in 1 .. Len(last.groups) :
            Len(last.groups[i]) <= last.args.max_group_size

RECURSIVE Flatten(_)
Flatten(seqs) == IF seqs = <<>> THEN <<>> ELSE Head(seqs) \o Flatten(Tail(seqs))

\* C13: split_matrix_random of a non-empty matrix returns exactly
\* ceil(n / max_group_size) groups (or exactly num_groups), its
\* group_indices are contiguous chunks of one shuffled permutation of the
\* row indices and partition them, and groups[i] is the matrix rows at
\* group_indices[i].
C13_RandomPartition ==
    (last.op = "split_matrix_random" /\ last.err = "") =>
        LET rows == n_users_of(bits)
            m == last.args.max_group_size
        IN  /\ Len(last.groups) = Len(last.group_indices)
            /\ IF m # 0
               THEN /\ Len(last.groups) * m >= rows
                    /\ (Len(last.groups) - 1) * m < rows
               ELSE Len(last.groups) = last.args.num_groups
            /\ last.shuffled_indices \in ShuffledIndices(rows)
            /\ Flatten(last.group_indices) = last.shuffled_indices
            /\ \A r \in 0 .. (rows - 1) :
                   Cardinality({<<i, k>> \in (1 .. Len(last.groups)) \X (1 .. rows) :
                                    /\ k <= Len(last.group_indices[i])
                                    /\ last.group_indices[i][k] = r}) = 1
            /\ \A i \in 1 .. Len(last.groups) :
                   /\ Len(last.groups[i]) = Len(last.group_indices[i])
                   /\ \A k \in 1 .. Len(last.groups[i]) :
                          last.groups[i][k] = bits[last.group_indices[i][k]]

\* Five rows split under max_group_size = 2: three chunks of a permutation
\* that is not the identity, the last one taking the remainder.
C13_Witness ==
    /\ last.op = "split_matrix_random"
    /\ last.err = ""
    /\ n_users_of(bits) = 5
    /\ last.args.max_group_size = 2
    /\ Len(last.groups) = 3
    /\ last.shuffled_indices = <<3, 0, 4, 1, 2>>

\* The clusters appended by the splits before split s.
RECURSIVE ClustersBefore(_, _)
ClustersBefore(clusters, s) ==
    IF s <= 1 THEN 0 ELSE Len(clusters[s - 1]) + ClustersBefore(clusters, s - 1)

\* C14: merge_splits_after_clustering returns the per-split clusters in
\* split order and, within a split, in cluster order; each output cluster
\* is the element-wise image of the local cluster under its split's index
\* map (local user u of split s becomes group_indices[s][u]), with the
\* cluster's order and length, and the number of output clusters is the
\* total number of local clusters.
C14_MergedInOrder ==
    (last.op = "merge_splits_after_clustering" /\ last.err = "") =>
        LET clusters == last.args.clusters
            group_indices == last.args.group_indices
        IN  /\ Len(last.all_clusters) = ClustersBefore(clusters, Len(clusters) + 1)
            /\ \A s \in 1 .. Len(clusters) : \A k \in 1 .. Len(clusters[s]) :
                   LET merged == last.all_clusters[ClustersBefore(clusters, s) + k]
                   IN  /\ Len(merged) = Len(clusters[s][k])
                       /\ \A u \in 1 .. Len(merged) :
                              merged[u] = At(group_indices[s], clusters[s][k][u])

\* Two splits of two clusters each, merged into four clusters none of which
\* is its local cluster.
C14_Witness ==
    /\ last.op = "merge_splits_after_clustering"
    /\ last.err = ""
    /\ Len(last.all_clusters) = 4
    /\ Len(last.args.clusters[1]) = 2
    /\ last.args.group_indices[1] # last.args.group_indices[2]
    /\ \A k \in 1 .. 4 : last.all_clusters[k] # Flatten(last.args.clusters)[k]
    /\ Len(last.all_clusters[4]) = 2

\* C15: merge_hierarchical_splits concatenates the splits' clusters, child
\* pairs and scores in split order and adds to both ids of every child pair
\* the number of clusters appended by earlier splits: in the merged
\* description a child id names the cluster it named inside its own split,
\* the ids of a split stay within that split's range, and (None, None) is
\* copied unchanged.
C15_OffsetsPreserveChildren ==
    last.op = "merge_hierarchical_splits" =>
        LET splits == last.args.splits
            sizes == [s \in 1 .. Len(splits) |-> splits[s][1]]
        IN  /\ last.all_clusters = Flatten([s \in 1 .. Len(splits) |-> splits[s][1]])
            /\ last.all_anomaly_scores
                   = Flatten([s \in 1 .. Len(splits) |-> splits[s][3]])
            /\ Len(last.all_children) = Len(last.all_clusters)
            /\ \A s \in 1 .. Len(splits) : \A j \in 1 .. Len(splits[s][2]) :
                   LET before == ClustersBefore(sizes, s)
                       local == splits[s][2][j]
                       merged == last.all_children[before + j]
                   IN  IF local = <<NoChild, NoChild>> THEN merged = local
                       ELSE \A c \in 1 .. 2 :
                                /\ merged[c] = local[c] + before
                                /\ merged[c] >= before
                                /\ merged[c] < before + Len(splits[s][1])
                                /\ At(last.all_clusters, merged[c])
                                       = At(splits[s][1], local[c])

\* Two splits of two clusters each; the second split's second cluster has
\* the children (0, 1) locally and (2, 3) in the merged description.
C15_Witness ==
    /\ last.op = "merge_hierarchical_splits"
    /\ Len(last.args.splits) = 2
    /\ Len(last.all_clusters) = 4
    /\ last.args.splits[2][2][2] = <<0, 1>>
    /\ last.all_children[4] = <<2, 3>>
    /\ last.all_children[3] = <<NoChild, NoChild>>
    /\ last.all_children[2] = <<0, 0>>

\* The three components get_anomaly_score combines for the node or list it
\* was called on: compactness, mean AVRD / 5 and mean burstness.
ScoreComponents(group) ==
    LET built == IF group.kind = "list" THEN make_group(heap, bits, group.users)
                 ELSE Outcome(heap, group.ref, NoValue, "")
        users == built.h[built.ref].users
    IN  <<group_anomaly_compactness(built.h, bits, built.ref,
                                    scorer.enable_penalty, scorer.beta).val,
          RatDivInt(Mean(scorer.avrd, users), 5),
          Mean(scorer.burstness, users)>>

\* C16: weighted_geometric_mean and weighted_harmonic_mean return exactly 0
\* whenever a component score is exactly 0, for any positive weights;
\* consequently get_anomaly_score with metadata is 0 whenever the group's
\* compactness, mean AVRD or mean burstness is 0.
C16_ZeroComponentZeroScore ==
    /\ last.op \in {"weighted_geometric_mean", "weighted_harmonic_mean"} =>
           ((\E i \in 1 .. Len(last.args.scores) : last.args.scores[i] = Zero)
                => last.val = Zero)
    /\ (last.op = "get_anomaly_score" /\ last.err = "" /\ scorer.use_metadata
            /\ last.size >= 1) =>
           ((\E i \in 1 .. 3 : ScoreComponents(last.group)[i] = Zero)
                => last.val = Zero)

\* A merged node within the size cap whose compactness and mean AVRD are
\* not 0 and whose mean burstness is 0 scores 0.
C16_Witness ==
    /\ last.op = "get_anomaly_score"
    /\ last.err = ""
    /\ scorer.use_metadata
    /\ last.group.kind = "node"
    /\ last.size = 2
    /\ ScoreComponents(last.group)[1] # Zero
    /\ ScoreComponents(last.group)[2] # Zero
    /\ ScoreComponents(last.group)[3] = Zero
    /\ last.val = Zero

\* The scores of the clusters that contain the user.
ScoresOf(clusters, anomaly_scores, user) ==
    {anomaly_scores[i] : i \in {j \in 1 .. Len(clusters) : user \in SeqSet(clusters[j])}}

\* C17: userwise_anomaly_scores returns, for every user in [0, n_users),
\* the maximum score among the clusters that contain the user, and 0 for a
\* user contained in no cluster (scores are anomaly scores, none negative).
C17_UserwiseMaximum ==
    last.op = "userwise_anomaly_scores" =>
        /\ Len(last.val) = last.args.n_users
        /\ \A user \in 0 .. (last.args.n_users - 1) :
               LET mine == ScoresOf(last.args.clusters, last.args.anomaly_scores, user)
               IN  IF mine = {} THEN At(last.val, user) = Zero
                   ELSE /\ At(last.val, user) \in mine
                        /\ \A x \in mine : RatLeq(x, At(last.val, user))

\* User 0 is in two clusters, the first of the higher score; user 2 in none.
C17_Witness ==
    /\ last.op = "userwise_anomaly_scores"
    /\ last.args.clusters = <<(<<0, 1>>), (<<1, 0>>)>>
    /\ last.args.anomaly_scores = <<One, Rat(1, 2)>>
    /\ last.val = <<One, One, Zero>>

\* The positions of the clusters of fewer than min_group_size users.
Below(clusters, min_group_size) ==
    {i \in 1 .. Len(clusters) : Len(clusters[i]) < min_group_size}

\* The k-th smallest element of a set of numbers.
Kth(S, k) == CHOOSE i \in S : Cardinality({j \in S : j < i}) = k - 1

C19_KeepsAboveThreshold ==
    last.op = "filter_small_groups" =>
        LET keep == {i \in 1 .. Len(last.args.clusters) :
                         Len(last.args.clusters[i]) > last.args.min_group_size}
        IN  /\ Len(last.filtered_clusters) = Cardinality(keep)
            /\ \A k \in 1 .. Len(last.filtered_clusters) :
                   Len(last.filtered_clusters[k]) > last.args.min_group_size

\* C20: the average_jaccard of every node of at most one user (a leaf, the
\* empty group) is exactly 1; _average_jaccard obtains it without a query
\* to the similarity collaborator and without touching another node, and
\* stores it in the node's cache.
C20_SmallGroupIsOne ==
    /\ \A n \in Refs :
           heap[n].n_users <= 1 => heap[n].average_jaccard \in {NoValue, One}
    /\ (last.op = "_average_jaccard" /\ heap[last.self].n_users <= 1) =>
           /\ last.err = ""
           /\ last.val = One
           /\ heap[last.self].average_jaccard = One
           /\ last.queries = 0
           /\ last.written = {last.self}

\* _average_jaccard has run on the empty group and on a leaf.
C20_Witness ==
    /\ last.op = "_average_jaccard"
    /\ heap[last.self].n_users = 0
    /\ heap[last.self].average_jaccard = One
    /\ \E n \in Refs : heap[n].n_users = 1 /\ heap[n].average_jaccard = One

\* ---------------------------------------------------------------------- C21
\* The children of the rows of one parent, in row order.
ChildRows(rows, parent) ==
    LET idx == {k \in 1 .. Len(rows) : rows[k][1] = parent}
    IN  [j \in 1 .. Cardinality(idx) |-> rows[Kth(idx, j)][2]]

\* The interface: parent ids >= n_users, every non-leaf child id also occurs
\* as a parent.
Interface(rows, n) ==
    \A k \in 1 .. Len(rows) :
        /\ rows[k][1] >= n
        /\ rows[k][2] >= n => \E j \in 1 .. Len(rows) : rows[j][1] = rows[k][2]

\* HDBSCAN's numbering: every child cluster has a larger id than its parent.
NumberedTopDown(rows, n) ==
    \A k \in 1 .. Len(rows) : rows[k][2] >= n => rows[k][2] > rows[k][1]

\* The parents merged so far were taken in strictly descending id order,
\* each with all of its child rows, and a pass that returns has merged every
\* distinct parent.
MergedDescending ==
    /\ \A j, k \in 1 .. Len(drv.merged) : j < k => drv.merged[j][1] > drv.merged[k][1]
    /\ \A k \in 1 .. Len(drv.merged) :
           drv.merged[k][2] = ChildRows(drv.rows, drv.merged[k][1])
    /\ drv.pc = "returned" =>
           {drv.merged[k][1] : k \in 1 .. Len(drv.merged)}
               = {drv.rows[k][1] : k \in 1 .. Len(drv.rows)}

\* Every child of the parent about to be merged has a built node.
ChildrenBuilt ==
    drv.pc = "parents" /\ drv.i < Len(drv.parents) =>
        \A c \in SeqSet(ChildRows(drv.rows, drv.parents[drv.i + 1])) :
            c < Len(drv.groups) /\ At(drv.groups, c) # None

FirstClusters ==
    IF last.args.num_groups # 0 THEN last.args.num_groups
    ELSE Ceil(n_users_of(bits), last.args.max_group_size)

KmeansRan ==
    /\ last.op = "split_matrix_kmeans"
    /\ last.args.num_groups # 0 \/ last.args.max_group_size # 0

\* The attempts were k0, k0 + 1, .. in order, every attempt before the last
\* had a group above max_group_size, and the call returned the last attempt
\* if that one fitted, the result of split_matrix_random after `trials`
\* failed attempts otherwise.
TrialsInOrder ==
    LET a == last.attempts
        Fitted(j) == a[j].largest <= last.args.max_group_size
    IN  /\ Len(a) <= last.args.trials
        /\ \A j \in 1 .. Len(a) : a[j].n_clusters = FirstClusters + j - 1
        /\ \A j \in 1 .. (Len(a) - 1) : ~Fitted(j)
        /\ IF Len(a) > 0 /\ Fitted(Len(a))
           THEN /\ last.err = ""
                /\ Len(last.groups) = a[Len(a)].n_clusters
                /\ MaxLen(last.groups) = a[Len(a)].largest
           ELSE /\ Len(a) = last.args.trials
                /\ \E p \in ShuffledIndices(n_users_of(bits)) :
                       \E r \in {split_matrix_random(bits, last.args.max_group_size, 0, p)} :
                           /\ last.groups = r.groups
                           /\ last.group_indices = r.group_indices
                           /\ last.err = r.err

\* C22: split_matrix_kmeans runs k-means with k0, k0 + 1, .., k0 + trials - 1
\* clusters in that order, stops at and returns the first attempt in which
\* every cluster has at most max_group_size rows, and returns the result of
\* split_matrix_random only when all `trials` attempts fail.
C22_TrialsInOrder == KmeansRan => TrialsInOrder

\* What does hold: C22 for the calls whose largest cluster count
\* k0 + trials - 1 is at most the number of rows.
TrialsInOrderWithinRows ==
    (KmeansRan /\ FirstClusters + last.args.trials - 1 <= n_users_of(bits)) =>
        TrialsInOrder

\* A call that made every attempt and fell back on the random split; a call
\* that returned its second attempt.
FellBackOnRandom ==
    /\ KmeansRan
    /\ FirstClusters + last.args.trials - 1 <= n_users_of(bits)
    /\ Len(last.attempts) = 2
    /\ last.attempts[2].largest > last.args.max_group_size
    /\ last.err = ""

ReturnedSecondAttempt ==
    /\ KmeansRan
    /\ Len(last.attempts) = 2
    /\ last.attempts[2].largest <= last.args.max_group_size
    /\ last.err = ""

\* ---------------------------------------------------------------------- C23
ManyChildrenRan == last.op = "make_group_from_many_children" /\ Len(last.children) >= 1

\* The node is the reduction of the list by halves whose lengths differ by
\* at most one: a list of one is the child itself, a longer list is a merge
\* of the reduction of a front part and the reduction of the rest.
RECURSIVE BalancedReduction(_, _, _)
BalancedReduction(h, ref, children) ==
    IF Len(children) = 1 THEN ref = children[1]
    ELSE /\ ref > Len(last.before)
         /\ \E k \in 1 .. (Len(children) - 1) :
                /\ k - (Len(children) - k) \in {0 - 1, 0, 1}
                /\ BalancedReduction(h, h[ref].child1, SubSeq(children, 1, k))
                /\ BalancedReduction(h, h[ref].child2,
                                     SubSeq(children, k + 1, Len(children)))

\* C23: for every children list of length n >= 1,
\* make_group_from_many_children returns in both modes after exactly n - 1
\* make_group_from_children merges (the single child itself when n = 1), and
\* the recursive mode reduces the list by halves whose lengths differ by at
\* most one.
C23_MergesAndHalves ==
    ManyChildrenRan =>
        /\ last.err = ""
        /\ last.merges = Len(last.children) - 1
        /\ Len(last.children) = 1 => last.ref = last.children[1]
        /\ last.recursive => BalancedReduction(heap, last.ref, last.children)

\* Every node the iterative mode has to score can be scored: it has at most
\* one user, a cached average_jaccard, or two children of which that holds.
RECURSIVE Scorable(_, _)
Scorable(h, ref) ==
    \/ h[ref].n_users <= 1
    \/ h[ref].average_jaccard # NoValue
    \/ /\ h[ref].child1 # None
       /\ h[ref].child2 # None
       /\ Scorable(h, h[ref].child1)
       /\ Scorable(h, h[ref].child2)

\* What does hold: C23 in recursive mode, and in iterative mode for lists
\* whose nodes can all be scored.
MergesAndHalvesWhenScorable ==
    (/\ ManyChildrenRan
     /\ last.recursive \/ \A k \in 1 .. Len(last.children) :
                              Scorable(last.before, last.children[k])) =>
        /\ last.err = ""
        /\ last.merges = Len(last.children) - 1
        /\ Len(last.children) = 1 => last.ref = last.children[1]
        /\ last.recursive => BalancedReduction(heap, last.ref, last.children)

FourChildrenMerged ==
    /\ ManyChildrenRan
    /\ Len(last.children) = 4
    /\ last.err = ""
    /\ last.merges = 3

\* ---------------------------------------------------------------------- C24
\* All queries of the pass so far, and how often the unordered pair {u, v}
\* is among them.
QueriedPairs == Flatten([k \in 1 .. Len(drv.queried) |-> drv.queried[k].pairs])

TimesQueried(u, v) ==
    Cardinality({k \in 1 .. Len(QueriedPairs) :
                    QueriedPairs[k] = <<u, v>> \/ QueriedPairs[k] = <<v, u>>})

\* The nodes that hold both users, and the first of them built.
NodesOfBoth(u, v) ==
    {n \in 1 .. Len(heap) : {u, v} \subseteq SeqSet(heap[n].users)}

FirstMerged(u, v) == CHOOSE n \in NodesOfBoth(u, v) : \A o \in NodesOfBoth(u, v) : n <= o

\* The queries of one scoring call are the cross pairs of the two children
\* of the node, each once, and none for a leaf.
CrossPairsOnly(entry) ==
    LET node == heap[entry.node]
    IN  IF node.child1 = None THEN entry.pairs = <<>>
        ELSE /\ Len(entry.pairs) = heap[node.child1].n_users * heap[node.child2].n_users
             /\ SeqSet(entry.pairs)
                    = SeqSet(heap[node.child1].users) \X SeqSet(heap[node.child2].users)

\* C24: in a hierarchical_anomaly_scores pass over a linkage matrix that
\* forms a tree over distinct users with no group above max_group_size, no
\* pair of users is queried twice, every scoring call queries the cross
\* pairs of the two children only (the children's averages are cached by
\* then), and when the pass returns every unordered pair of users has been
\* queried exactly once, by the scoring of the node that first merged them.
C24_PairsQueriedOnce ==
    (/\ drv.kind = "hierarchical"
     /\ \A n \in 1 .. Len(heap) :
            DistinctUsers(heap[n]) /\ heap[n].n_users <= scorer.max_group_size) =>
        /\ \A u, v \in Users : u # v => TimesQueried(u, v) <= 1
        /\ \A n \in 1 .. Len(heap) : heap[n].average_jaccard # NoValue
        /\ \A k \in 1 .. Len(drv.queried) : CrossPairsOnly(drv.queried[k])
        /\ drv.pc = "returned" =>
               \A u, v \in SeqSet(heap[Len(heap)].users) :
                   u # v =>
                       /\ TimesQueried(u, v) = 1
                       /\ \E k \in 1 .. Len(drv.queried) :
                              /\ drv.queried[k].node = FirstMerged(u, v)
                              /\ {<<u, v>>, <<v, u>>} \cap SeqSet(drv.queried[k].pairs) # {}

\* A pass over four users has returned: six pairs queried, four of them by
\* the merge of two groups of two users.
C24_Witness ==
    /\ drv.kind = "hierarchical"
    /\ drv.pc = "returned"
    /\ heap[Len(heap)].n_users = NUsers
    /\ DistinctUsers(heap[Len(heap)])
    /\ Len(QueriedPairs) = 6
    /\ \E k \in 1 .. Len(drv.queried) : Len(drv.queried[k].pairs) = 4
    /\ \E u, v \in Users : u # v /\ get_jaccard_similarity(bits, u, v) \notin {Zero, One}

\* ---------------------------------------------------------------------- C25
Constructed == last.op \in {"make_group_from_many_children", "make_group_from_children"}

ScoredReturned == last.op = "group_anomaly_compactness"

\* The nodes the call found, other than the node it was made on.
Others(self) == (1 .. Len(last.before)) \ {self}

\* C25 as stated: make_group_from_children and make_group_from_many_children
\* (both modes) leave the caller's children list as it was and leave every
\* field of every child unchanged; scoring a parent leaves every field of its
\* children unchanged.
C25_InputsUnmodified ==
    /\ Constructed =>
           /\ last.children_after = last.children
           /\ \A k \in 1 .. Len(last.children) :
                  heap[last.children[k]] = last.before[last.children[k]]
    /\ (ScoredReturned /\ heap[last.self].child1 # None) =>
           /\ heap[heap[last.self].child1] = last.before[heap[last.self].child1]
           /\ heap[heap[last.self].child2] = last.before[heap[last.self].child2]

\* The node is as the call found it, but for an average_jaccard cache that
\* was empty and now holds the value _average_jaccard computes for the node.
OnlyCacheFilled(n) ==
    \/ heap[n] = last.before[n]
    \/ /\ last.before[n].average_jaccard = NoValue
       /\ heap[n] = [last.before[n] EXCEPT
                        !.average_jaccard = _average_jaccard(last.before, bits, n).val]

\* C25 amended: make_group_from_children and the recursive mode leave the
\* children list and every node unchanged.  The iterative mode works on the
\* caller's list: a list of two or more children is left holding the
\* returned node alone (and has lost the two children last popped when the
\* call raises); of the nodes it found, it changes nothing but empty
\* average_jaccard caches, which it fills.  Scoring a parent changes nothing
\* in any other node but empty average_jaccard caches, which it fills.
C25_OnlyCachesFilled ==
    /\ (Constructed /\ last.recursive) =>
           /\ last.children_after = last.children
           /\ \A n \in 1 .. Len(last.before) : heap[n] = last.before[n]
    /\ (Constructed /\ ~last.recursive) =>
           /\ IF Len(last.children) <= 1 THEN last.children_after = last.children
              ELSE IF last.err = "" THEN last.children_after = <<last.ref>>
              ELSE Len(last.children_after) < Len(last.children)
           /\ \A n \in 1 .. Len(last.before) : OnlyCacheFilled(n)
    /\ ScoredReturned => \A n \in Others(last.self) : OnlyCacheFilled(n)

\* An iterative-mode call on three children has returned, leaving the
\* caller's list with the returned node alone and having filled the cache of
\* a child of two users.
C25_Witness ==
    /\ last.op = "make_group_from_many_children"
    /\ ~last.recursive
    /\ last.err = ""
    /\ Len(last.children) = 3
    /\ last.children_after = <<last.ref>>
    /\ \E k \in 1 .. 3 :
           /\ last.before[last.children[k]].n_users = 2
           /\ last.before[last.children[k]].average_jaccard = NoValue
           /\ heap[last.children[k]].average_jaccard # NoValue

\* ---------------------------------------------------------------------- C26
\* The nodes a construction call created: those the arena did not hold when
\* the call was made.
CreatedBy(call) == (Len(call.before) + 1) .. (Len(call.before) + call.merges)

ComputedAverage(n) == heap[n].average_jaccard # NoValue

\* C26: after a recursive-mode call of make_group_from_many_children no node
\* the call created has average_jaccard computed, and the compactness of the
\* returned node, once requested and returned, has computed it in every one
\* of them; after an iterative-mode call that returned, every node the call
\* created, the returned one included, has average_jaccard computed.
C26_LazyAndEager ==
    /\ (ManyChildrenRan /\ last.recursive) =>
           \A n \in CreatedBy(last) : ~ComputedAverage(n)
    /\ (ManyChildrenRan /\ ~last.recursive /\ last.err = "") =>
           /\ \A n \in CreatedBy(last) : ComputedAverage(n)
           /\ (last.merges >= 1 => last.ref \in CreatedBy(last))
    /\ (/\ ScoredReturned
        /\ last.made.op = "make_group_from_many_children"
        /\ last.made.recursive
        /\ last.err = "") =>
           \A n \in CreatedBy(last.made) :
               /\ last.before[n].average_jaccard = NoValue
               /\ ComputedAverage(n)

\* The statement without the restriction to calls that returned.
EagerWhateverTheOutcome ==
    (ManyChildrenRan /\ ~last.recursive) =>
        \A n \in CreatedBy(last) : ComputedAverage(n)

\* The compactness of a node that a recursive-mode call built from four
\* children has returned: its three created nodes held no average before
\* the request and hold one now.
C26_Witness ==
    /\ ScoredReturned
    /\ last.err = ""
    /\ last.made.op = "make_group_from_many_children"
    /\ last.made.recursive
    /\ last.made.merges = 3
    /\ \A n \in CreatedBy(last.made) :
           last.before[n].average_jaccard = NoValue /\ ComputedAverage(n)

\* An iterative-mode call on four children has returned with its three
\* created nodes all holding an average.
EagerReturned ==
    /\ ManyChildrenRan
    /\ ~last.recursive
    /\ last.err = ""
    /\ last.merges = 3
    /\ \A n \in CreatedBy(last) : ComputedAverage(n)

\* ---------------------------------------------------------------------- C27
InUnitInterval(x) == RatLeq(Zero, x) /\ RatLeq(x, One)

UnpenalizedReturned ==
    /\ last.op = "group_anomaly_compactness"
    /\ ~last.enable_penalty
    /\ last.err = ""

\* C27: in a forest built from leaves by merges over distinct users, every
\* node has n_total_reviews <= n_users * n_total_products_reviewed and
\* n_common_products_reviewed <= n_total_products_reviewed; its review and
\* product tightness lie in [0, 1] and are 0 when it has no product; its
\* average_jaccard, once computed, lies in [0, 1]; the unpenalized
\* compactness is the product of the three, lies in [0, 1], and is exactly 1
\* for a single-user leaf with at least one product.
C27_FactorsInUnitInterval ==
    /\ \A n \in Refs :
           /\ DistinctUsers(heap[n])
           /\ heap[n].n_total_reviews
                  <= heap[n].n_users * heap[n].n_total_products_reviewed
           /\ heap[n].n_common_products_reviewed <= heap[n].n_total_products_reviewed
           /\ InUnitInterval(_review_tightness(heap[n]))
           /\ InUnitInterval(_product_tightness(heap[n]))
           /\ heap[n].n_total_products_reviewed = 0 =>
                  /\ _review_tightness(heap[n]) = Zero
                  /\ _product_tightness(heap[n]) = Zero
           /\ heap[n].average_jaccard # NoValue => InUnitInterval(heap[n].average_jaccard)
    /\ UnpenalizedReturned =>
           /\ last.val = RatMul(RatMul(_review_tightness(heap[last.self]),
                                       _product_tightness(heap[last.self])),
                                heap[last.self].average_jaccard)
           /\ InUnitInterval(last.val)
           /\ (heap[last.self].n_users = 1
                  /\ heap[last.self].n_total_products_reviewed >= 1) =>
                  last.val = One

\* The unpenalized compactness of a node of three users has returned a
\* value strictly between 0 and 1, all three factors below 1.
C27_Witness ==
    /\ UnpenalizedReturned
    /\ heap[last.self].n_users = 3
    /\ RatLess(Zero, last.val)
    /\ RatLess(_review_tightness(heap[last.self]), One)
    /\ RatLess(_product_tightness(heap[last.self]), One)
    /\ RatLess(heap[last.self].average_jaccard, One)

\* The unpenalized compactness of a single-user leaf with a product has
\* returned 1, and that of a leaf without products 0.
LeafCompactnessOne ==
    /\ UnpenalizedReturned
    /\ heap[last.self].n_users = 1
    /\ heap[last.self].n_total_products_reviewed >= 1
    /\ last.val = One

LeafCompactnessZero ==
    /\ UnpenalizedReturned
    /\ heap[last.self].n_users = 1
    /\ heap[last.self].n_total_products_reviewed = 0
    /\ last.val = Zero
====
